---- MODULE Spec2Model ----
(***************************************************************************)
(* radio-hal: the completion-poll engines (blocking.rs, nonblocking.rs)    *)
(* driven against a scripted device implementing the capability traits of  *)
(* lib.rs.  One behaviour is one engine operation: a caller picks the      *)
(* operation, its options and the device's script; the engine then issues  *)
(* its device calls one by one.  Every device and wait call is recorded,   *)
(* with its arguments and its return value, in the history variable trace. *)
(*                                                                         *)
(* A second specification, SpecMock, is the mock radio of mock.rs on its   *)
(* own: a test builds it with a list of expected transactions and then     *)
(* makes calls on it; calls is the history of those calls.                 *)
(*                                                                         *)
(* A third specification, SpecReg, is update_register of lib.rs on a       *)
(* register of the device that another writer can write as well; rtrace    *)
(* is the history of the accesses to that register.                        *)
(*                                                                         *)
(* SpecDriven is the cooperative engine under a scheduler that keeps       *)
(* polling the future while the wall clock advances.  SpecWide is the      *)
(* blocking loop with durations and counters at their full width.          *)
(* SpecBuilt is the mock radio built from one transaction of every         *)
(* factory.  SpecHelpers is do_receive and do_ping_pong of helpers.rs.     *)
(*                                                                         *)
(* Durations (core::time::Duration) are whole nanoseconds.                 *)
(***************************************************************************)
EXTENDS Integers, Sequences, FiniteSets, TLC

\* Bounds of the model
MaxPoll == 3        \* largest poll interval drawn, in microseconds
MaxTimeout == 4     \* largest timeout drawn, in microseconds
MaxFalse == 4       \* largest number of false checks a script gives before true
MaxErrAt == 3       \* latest device call a script lets fail
MaxAsyncTimeout == 2 \* largest cooperative timeout drawn, in microseconds
MaxPeriod == 1      \* largest cooperative poll period drawn, in microseconds
MaxNow == 3         \* the wall clock stops advancing here, in microseconds
MaxQueue == 2       \* longest list of expectations a mock radio is built with
MaxOther == 2       \* most writes another writer makes to the register
MaxWaitErr == 1     \* latest wait a script lets fail

\* Longest call trace a run is allowed: enough for every run that polls with
\* a positive interval; it only cuts the endless polling of a zero interval.
MaxCalls == 2 * MaxTimeout + 6

VARIABLES
    op,       \* the engine operation invoked ("none" before the call)
    pc,       \* position of the operation in its code
    opts,     \* BlockingOptions / AsyncOptions of the invocation
    script,   \* what the device will answer
    data,     \* bytes handed to start_transmit
    state,    \* target state handed to set_state_checked
    buff,     \* the caller's receive buffer
    c,        \* the elapsed counter of the blocking loops, in microseconds
    result,   \* outcome returned to the caller
    trace,    \* history: every device / wait call with argument and return
    now,      \* the wall clock (SystemTime::now), in nanoseconds
    expiry,   \* expiry of the cooperative future, Option<SystemTime>
    info,     \* the caller's receive info handed to async_receive
    wake,     \* "none", "armed" (wake_fn's timer runs) or "woken"
    wakeAt,   \* when an armed timer fires
    polls,    \* history: polls of the cooperative future so far
    wakes,    \* history: every wake request, <<poll, how, period>>
    link,     \* do_ping_pong's LinkTestInfo and the index of its round
    queue,    \* the mock radio: expectations not consumed yet
    expected, \* history: the expectations the mock radio was built with
    calls,    \* history: every call made on the mock radio, in order
    mbuff,    \* the buffer last handed to the mock's get_received
    panic,    \* Some(cause) once a call on the mock has panicked
    finished, \* done() has returned
    reg,      \* the register file: the word stored in the one register used
    rpc,      \* position of update_register in its code
    rf,       \* the function handed to update_register
    rerr,     \* the register access the device lets fail ("none", "read", "write")
    existing, \* update_register's local: the value it read
    rresult,  \* what update_register returned
    rtrace    \* history: every access to the register, by whom, with value

vars == <<op, pc, opts, script, data, state, buff, c, result, trace,
          now, expiry, info, wake, wakeAt, polls, wakes, link,
          queue, expected, calls, mbuff, panic, finished,
          reg, rpc, rf, rerr, existing, rresult, rtrace>>

\* what belongs to the cooperative engine alone
sched == <<expiry, info, wake, wakeAt, polls, wakes>>

\* the wall clock and what belongs to the cooperative engine alone
coop == <<now, expiry, info, wake, wakeAt, polls, wakes>>

\* the engine operation and everything it owns
engine == <<op, pc, opts, script, data, state, buff, c, result, trace,
            now, expiry, info, wake, wakeAt, polls, wakes, link>>

\* the mock radio and the test driving it
mock == <<queue, expected, calls, mbuff, panic, finished>>

\* the register file and the update_register call on it
regfile == <<reg, rpc, rf, rerr, existing, rresult, rtrace>>

-----------------------------------------------------------------------------
\* Values

\* Option<T>
None == <<>>
Some(v) == <<v>>

\* Result<T, E> of a device call; values and errors are carried as tuples
Ok(v) == [ok |-> TRUE, val |-> v]
Err(e) == [ok |-> FALSE, val |-> <<e>>]

\* Device error values (the trait's associated Error type); "Timeout" is
\* MockError::Timeout
Errors == {"Timeout", "Crc"}

\* Radio states (MockState)
States == {"Idle", "Sleep", "Receive"}

\* Payloads handed to start_transmit
Payloads == {<<170, 187>>}

\* Packets and receive info a device hands back from get_received
Packets == {<<>>, <<170, 187>>}
Infos == {[rssi |-> -81, lqi |-> 0]}
EmptyBuff == <<0, 0, 0>>
NoInfo == [rssi |-> 0, lqi |-> 0]

\* Durations on a half-microsecond grid, in nanoseconds
DurationsUpTo(maxUs) == {500 * h : h \in 0..(2 * maxUs)}

\* Duration::as_micros: whole microseconds, the remainder dropped
\* (faulty variant: rounded up)
as_micros_ceil(d) == (d + 999) \div 1000
as_micros(d) == d \div 1000

\* BlockingOptions { poll_interval, timeout }
BlockingOptionsSet ==
    [poll_interval : DurationsUpTo(MaxPoll), timeout : DurationsUpTo(MaxTimeout)]

\* Outcomes of an engine operation.  BlockingError::Timeout and
\* BlockingError::Inner(e) are different variants whatever e is.
NoResult == [kind |-> "None"]
OkUnit == [kind |-> "Ok"]
\* (faulty variant: the length recomputed from the whole buffer, the info reset)
OkReceivedRebuilt(n, i) == [kind |-> "Ok", n |-> Len(EmptyBuff), info |-> NoInfo]
OkReceived(n, i) == [kind |-> "Ok", n |-> n, info |-> i]
EngineTimeout == [kind |-> "Timeout"]
\* (faulty variants: a device Timeout folded into the engine's; the error replaced)
InnerMisnamed(e) == IF e = "Timeout" THEN [kind |-> "Timeout"] ELSE [kind |-> "Inner", err |-> e]
InnerLossy(e) == [kind |-> "Inner", err |-> "Crc"]
\* impl From<E> for BlockingError<E> / AsyncError<E>: what `?` applies
Inner(e) == [kind |-> "Inner", err |-> e]

-----------------------------------------------------------------------------
\* The scripted device

\* A script: check answers false `falses` times and then true (or false for
\* ever when `never`); the errAt-th device call (0: none) fails with err; the
\* waitErrAt-th call of the wait primitive (0: none) fails.  A script lets
\* at most one call fail.
Scripts ==
    { s \in [falses : 0..MaxFalse, never : BOOLEAN, errAt : 0..MaxErrAt, err : Errors,
             waitErrAt : 0..MaxWaitErr] :
        /\ (s.never => s.falses = 0)
        /\ (s.errAt = 0 => s.err = "Timeout")
        /\ (s.waitErrAt > 0 => s.errAt = 0) }

\* the cooperative engine never calls the wait primitive
ScriptsNoWait == {s \in Scripts : s.waitErrAt = 0}

Count(tr, name) == Cardinality({i \in DOMAIN tr : tr[i].call = name})

\* Device calls made so far (the wait primitive is not a device call)
DevCalls(tr) == Cardinality({i \in DOMAIN tr : tr[i].call # "delay_us"})

dev_fails(tr) == script.errAt = DevCalls(tr) + 1

\* start_transmit / start_receive / set_state / set_power -> Result<(), E>
dev_unit(tr) == IF dev_fails(tr) THEN Err(script.err) ELSE Ok(<<>>)

\* check_transmit / check_receive -> Result<bool, E>
dev_check(tr, name) ==
    IF dev_fails(tr) THEN Err(script.err)
    ELSE Ok(<<(~script.never) /\ Count(tr, name) + 1 > script.falses>>)

\* get_state -> Result<State, E>: the target once the script says so, some
\* other state before
dev_get_state(tr, tgt) ==
    IF dev_fails(tr) THEN {Err(script.err)}
    ELSE IF (~script.never) /\ Count(tr, "get_state") + 1 > script.falses
         THEN {Ok(<<tgt>>)}
         ELSE {Ok(<<s>>) : s \in States \ {tgt}}

\* get_received -> Result<(usize, Info), E>, with the buffer it leaves
dev_get_received(tr, b) ==
    IF dev_fails(tr) THEN {[ret |-> Err(script.err), buff |-> b]}
    ELSE {[ret |-> Ok(<<Len(d), i>>),
           buff |-> [j \in DOMAIN b |-> IF j <= Len(d) THEN d[j] ELSE b[j]]] :
              d \in Packets, i \in Infos}

\* delay_us -> Result<(), Self::Error> of the DelayUs implementation
WaitError == "DelayFault"
dev_wait(tr) ==
    IF script.waitErrAt = Count(tr, "delay_us") + 1 THEN Err(WaitError) ELSE Ok(<<>>)

\* Wall-clock time a device or wait call of the blocking engine takes: none
\* that the clock shows, or so long that the clock is past every timeout
\* drawn; the clock is not followed further than that.
Overdue == 1000 * (MaxTimeout + 1)
Took == {now, Overdue}

\* a trace entry; arg holds the call's arguments (for get_received the
\* caller's buffer as the device left it); poll is the poll of the cooperative future that issued the
\* call (0 in the blocking engine)
CallIn(n, name, arg, ret) == [call |-> name, arg |-> arg, ret |-> ret, poll |-> n]
Call(name, arg, ret) == CallIn(0, name, arg, ret)

CanCall == Len(trace) < MaxCalls

-----------------------------------------------------------------------------
\* LinkTestInfo { sent, received, local_rssi, remote_rssi } before a link test
NoLink == [sent |-> 0, received |-> 0, local_rssi |-> <<>>, remote_rssi |-> <<>>, i |-> 0]

\* no engine operation has been invoked
NoOperation ==
    /\ op = "none"
    /\ pc = "idle"
    /\ opts = [poll_interval |-> 0, timeout |-> 0]
    /\ script = [falses |-> 0, never |-> FALSE, errAt |-> 0, err |-> "Timeout",
                 waitErrAt |-> 0]
    /\ data = <<>>
    /\ state = "Idle"
    /\ buff = EmptyBuff
    /\ c = 0
    /\ result = NoResult
    /\ trace = <<>>
    /\ now = 0
    /\ expiry = None
    /\ info = NoInfo
    /\ wake = "none"
    /\ wakeAt = 0
    /\ polls = 0
    /\ wakes = <<>>
    /\ link = NoLink

\* no mock radio has been built
NoMock ==
    /\ queue = <<>>
    /\ expected = <<>>
    /\ calls = <<>>
    /\ mbuff = <<>>
    /\ panic = None
    /\ finished = FALSE

\* no register access is under way
NoRegisters ==
    /\ reg = 0
    /\ rpc = "idle"
    /\ rf = "same"
    /\ rerr = "none"
    /\ existing = 0
    /\ rresult = NoResult
    /\ rtrace = <<>>

Init == NoOperation /\ NoMock /\ NoRegisters

-----------------------------------------------------------------------------
\* blocking.rs: BlockingTransmit::do_transmit

\* self.start_transmit(data)?: the loop is entered only after an Ok
\* (faulty variant: the error of the start call ignored)
tx_started_ignoring(r) == TRUE
tx_started(r) == r.ok

\* c += tx_options.poll_interval.as_micros()
\* (faulty variant: the counter counts polls, not microseconds)
tx_count_polls(cnt, o) == cnt + 1
tx_count(cnt, o) == cnt + as_micros(o.poll_interval)

\* c > t
\* (faulty variants: >= for >; the wall clock sampled as well)
tx_overrun_ge(cnt, o) == cnt >= as_micros(o.timeout)
tx_overrun_sampling(cnt, o) == cnt > as_micros(o.timeout) \/ now > o.timeout
tx_overrun(cnt, o) == cnt > as_micros(o.timeout)

\* return Err(BlockingError::Timeout): the operation is over
\* (faulty variant: the wait still made after the overrun)
tx_on_overrun_waiting == "delay"
tx_on_overrun == "done"

\* after the wait the loop goes round to the check
\* (faulty variant: the start call inside the loop)
tx_after_delay_restarting == "start"
tx_after_delay == "check"

call_do_transmit ==
    /\ pc = "idle"
    /\ \E d \in Payloads, o \in BlockingOptionsSet, s \in Scripts :
        /\ op' = "do_transmit"
        /\ data' = d
        /\ opts' = o
        /\ script' = s
    /\ pc' = "start"
    /\ UNCHANGED <<state, buff, c, result, trace, coop>>
    /\ UNCHANGED <<mock, regfile, link>>

\* self.start_transmit(data)?; let mut c = 0;
do_transmit_start ==
    /\ op = "do_transmit" /\ pc = "start" /\ CanCall
    /\ LET r == dev_unit(trace) IN
        /\ trace' = Append(trace, Call("start_transmit", <<data>>, r))
        /\ IF tx_started(r)
           THEN pc' = "check" /\ result' = result
           ELSE pc' = "done" /\ result' = Inner(r.val[1])
    /\ c' = 0
    /\ now' \in Took
    /\ UNCHANGED <<op, opts, script, data, state, buff, sched>>
    /\ UNCHANGED <<mock, regfile, link>>

\* one pass of the loop up to the wait: check_transmit, then the counter
do_transmit_check ==
    /\ op = "do_transmit" /\ pc = "check" /\ CanCall
    /\ LET r == dev_check(trace, "check_transmit") IN
        /\ trace' = Append(trace, Call("check_transmit", <<>>, r))
        /\ IF ~r.ok
           THEN pc' = "done" /\ result' = Inner(r.val[1]) /\ c' = c
           ELSE IF r.val[1]
           THEN pc' = "done" /\ result' = OkUnit /\ c' = c
           ELSE /\ c' = tx_count(c, opts)
                /\ IF tx_overrun(c', opts)
                   THEN pc' = tx_on_overrun /\ result' = EngineTimeout
                   ELSE pc' = "delay" /\ result' = result
    /\ now' \in Took
    /\ UNCHANGED <<op, opts, script, data, state, buff, sched>>
    /\ UNCHANGED <<mock, regfile, link>>

\* let _ = self.delay_us(poll_interval.as_micros() as u32);
do_transmit_delay ==
    /\ op = "do_transmit" /\ pc = "delay" /\ CanCall
    /\ trace' = Append(trace, Call("delay_us", <<as_micros(opts.poll_interval)>>, dev_wait(trace)))
    /\ pc' = tx_after_delay
    /\ now' \in Took
    /\ UNCHANGED <<op, opts, script, data, state, buff, c, result, sched>>
    /\ UNCHANGED <<mock, regfile, link>>

-----------------------------------------------------------------------------
\* blocking.rs: BlockingReceive::do_receive

\* c > t
\* (faulty variant: >= for >)
rx_overrun_ge(cnt, o) == cnt >= as_micros(o.timeout)
rx_overrun(cnt, o) == cnt > as_micros(o.timeout)

\* the restart flag do_receive hands to check_receive
\* (faulty variant: restart only on the first check)
rx_restart_flipping(tr) == Count(tr, "check_receive") = 0
rx_restart(tr) == TRUE

\* after a false check within the budget do_receive waits; get_received is
\* reached only from a true check
\* (faulty variant: the fetch outside the branch of the true check)
rx_after_false_fetching == "fetch"
rx_after_false == "delay"

call_do_receive ==
    /\ pc = "idle"
    /\ \E o \in BlockingOptionsSet, s \in Scripts :
        /\ op' = "do_receive"
        /\ opts' = o
        /\ script' = s
    /\ pc' = "start"
    /\ UNCHANGED <<data, state, buff, c, result, trace, coop>>
    /\ UNCHANGED <<mock, regfile, link>>

\* self.start_receive()?; let mut c = 0;
do_receive_start ==
    /\ op = "do_receive" /\ pc = "start" /\ CanCall
    /\ LET r == dev_unit(trace) IN
        /\ trace' = Append(trace, Call("start_receive", <<>>, r))
        /\ IF r.ok
           THEN pc' = "check" /\ result' = result
           ELSE pc' = "done" /\ result' = Inner(r.val[1])
    /\ c' = 0
    /\ now' \in Took
    /\ UNCHANGED <<op, opts, script, data, state, buff, sched>>
    /\ UNCHANGED <<mock, regfile, link>>

\* one pass of the loop up to the next device or wait call
do_receive_check ==
    /\ op = "do_receive" /\ pc = "check" /\ CanCall
    /\ LET r == dev_check(trace, "check_receive") IN
        /\ trace' = Append(trace, Call("check_receive", <<rx_restart(trace)>>, r))
        /\ IF ~r.ok
           THEN pc' = "done" /\ result' = Inner(r.val[1]) /\ c' = c
           ELSE IF r.val[1]
           THEN pc' = "fetch" /\ result' = result /\ c' = c
           ELSE /\ c' = c + as_micros(opts.poll_interval)
                /\ IF rx_overrun(c', opts)
                   THEN pc' = "done" /\ result' = EngineTimeout
                   ELSE pc' = rx_after_false /\ result' = result
    /\ now' \in Took
    /\ UNCHANGED <<op, opts, script, data, state, buff, sched>>
    /\ UNCHANGED <<mock, regfile, link>>

\* let (n, i) = self.get_received(buff)?; return Ok((n, i));
do_receive_fetch ==
    /\ op = "do_receive" /\ pc = "fetch" /\ CanCall
    /\ \E g \in dev_get_received(trace, buff) :
        /\ trace' = Append(trace, Call("get_received", <<g.buff>>, g.ret))
        /\ buff' = g.buff
        /\ result' = IF g.ret.ok THEN OkReceived(g.ret.val[1], g.ret.val[2])
                     ELSE Inner(g.ret.val[1])
    /\ pc' = "done"
    /\ now' \in Took
    /\ UNCHANGED <<op, opts, script, data, state, c, sched>>
    /\ UNCHANGED <<mock, regfile, link>>

\* let _ = ...: whatever the wait primitive returns is dropped
\* (faulty variant: the wait's error propagated with `?`)
rx_wait_propagated(r) == r.ok
rx_wait_discarded(r) == TRUE

\* let _ = self.delay_us(poll_interval.as_micros() as u32);
do_receive_delay ==
    /\ op = "do_receive" /\ pc = "delay" /\ CanCall
    /\ LET r == dev_wait(trace) IN
        /\ trace' = Append(trace, Call("delay_us", <<as_micros(opts.poll_interval)>>, r))
        /\ IF rx_wait_discarded(r)
           THEN pc' = "check" /\ result' = result
           ELSE pc' = "done" /\ result' = Inner(r.val[1])
    /\ now' \in Took
    /\ UNCHANGED <<op, opts, script, data, state, buff, c, sched>>
    /\ UNCHANGED <<mock, regfile, link>>

-----------------------------------------------------------------------------
\* blocking.rs: BlockingSetState::set_state_checked

\* c > t
\* (faulty variant: >= for >)
ss_overrun_ge(cnt, o) == cnt >= as_micros(o.timeout)
ss_overrun(cnt, o) == cnt > as_micros(o.timeout)

\* state == s
\* (faulty variant: Idle accepted for any target)
ss_reached_any_idle(want, got) == want = got \/ got = "Idle"
ss_reached(want, got) == want = got

call_set_state_checked ==
    /\ pc = "idle"
    /\ \E st \in States, o \in BlockingOptionsSet, s \in Scripts :
        /\ op' = "set_state_checked"
        /\ state' = st
        /\ opts' = o
        /\ script' = s
    /\ pc' = "start"
    /\ UNCHANGED <<data, buff, c, result, trace, coop>>
    /\ UNCHANGED <<mock, regfile, link>>

\* the loop starts with the check
\* (faulty variant: the loop starts with the wait)
ss_loop_entry_waiting == "delay"
ss_loop_entry == "check"

\* self.set_state(state)?; let mut c = 0;
set_state_checked_start ==
    /\ op = "set_state_checked" /\ pc = "start" /\ CanCall
    /\ LET r == dev_unit(trace) IN
        /\ trace' = Append(trace, Call("set_state", <<state>>, r))
        /\ IF r.ok
           THEN pc' = ss_loop_entry /\ result' = result
           ELSE pc' = "done" /\ result' = Inner(r.val[1])
    /\ c' = 0
    /\ now' \in Took
    /\ UNCHANGED <<op, opts, script, data, state, buff, sched>>
    /\ UNCHANGED <<mock, regfile, link>>

\* one pass of the loop up to the wait: get_state, the comparison, the counter
set_state_checked_check ==
    /\ op = "set_state_checked" /\ pc = "check" /\ CanCall
    /\ \E r \in dev_get_state(trace, state) :
        /\ trace' = Append(trace, Call("get_state", <<>>, r))
        /\ IF ~r.ok
           THEN pc' = "done" /\ result' = Inner(r.val[1]) /\ c' = c
           ELSE IF ss_reached(state, r.val[1])
           THEN pc' = "done" /\ result' = OkUnit /\ c' = c
           ELSE /\ c' = c + as_micros(opts.poll_interval)
                /\ IF ss_overrun(c', opts)
                   THEN pc' = "done" /\ result' = EngineTimeout
                   ELSE pc' = "delay" /\ result' = result
    /\ now' \in Took
    /\ UNCHANGED <<op, opts, script, data, state, buff, sched>>
    /\ UNCHANGED <<mock, regfile, link>>

\* let _ = self.delay_us(poll_interval.as_micros() as u32);
set_state_checked_delay ==
    /\ op = "set_state_checked" /\ pc = "delay" /\ CanCall
    /\ trace' = Append(trace, Call("delay_us", <<as_micros(opts.poll_interval)>>, dev_wait(trace)))
    /\ pc' = "check"
    /\ now' \in Took
    /\ UNCHANGED <<op, opts, script, data, state, buff, c, result, sched>>
    /\ UNCHANGED <<mock, regfile, link>>

-----------------------------------------------------------------------------
\* nonblocking.rs: the cooperative engine.  An `async fn` runs nothing when it
\* is called: its body runs inside the polls of the future it returns, so the
\* first poll runs the body up to and including the first poll of the inner
\* TransmitFuture / ReceiveFuture, and every later poll is a poll of that
\* inner future.

\* AsyncOptions { power, timeout, poll_period, wake_fn }
AsyncOptionsSet ==
    [power : {None, Some(10)},
     timeout : {None} \cup {Some(1000 * u) : u \in 0..MaxAsyncTimeout},
     poll_period : {1000 * u : u \in 0..MaxPeriod},
     wake_fn : {None, Some("async_std_task_waker")}]

\* impl From<E> for AsyncError<E>
\* (faulty variant: every device error reported as the same one)
AsyncInnerLossy(e) == [kind |-> "Inner", err |-> "Crc"]
AsyncInner(e) == [kind |-> "Inner", err |-> e]

\* The clock is followed up to MaxNow and, when a deadline is set, until it
\* is past the deadline and an armed timer has fired.
ClockEnd ==
    LET Later(a, b) == IF a > b THEN a ELSE b IN
    IF expiry = None THEN 1000 * MaxNow
    ELSE Later(Later(1000 * MaxNow, expiry[1] + 1000),
               IF wake = "armed" THEN wakeAt ELSE now)

\* wall-clock time a poll may take
Elapse == {d \in {0, 1000} : now + d <= ClockEnd}

\* a poll issues at most three device calls
CanPoll == Len(trace) + 3 <= MaxCalls

\* timeout.map(|t| SystemTime::now().checked_add(t).unwrap())
\* (faulty variant: no timeout taken as a timeout of zero)
expiry_of_defaulting(o, tnow) ==
    IF o.timeout = None THEN Some(tnow) ELSE Some(tnow + o.timeout[1])
expiry_of(o, tnow) == IF o.timeout = None THEN None ELSE Some(tnow + o.timeout[1])

Ready(tr, res, b, i) == [trace |-> tr, ready |-> TRUE, result |-> res, buff |-> b, info |-> i]
Pending(tr, b, i) == [trace |-> tr, ready |-> FALSE, result |-> NoResult, buff |-> b, info |-> i]

\* if let Some(e) = s.expiry { if SystemTime::now() > e { Timeout } }
\* (faulty variant: expired already at the deadline itself)
tx_expired_at(exp, tnow) == exp # None /\ tnow >= exp[1]
tx_expired(exp, tnow) == exp # None /\ tnow > exp[1]

\* TransmitFuture::poll up to its return value (the wake is in the action)
\* (faulty variant: the deadline tested before the check is made)
TransmitFuture_poll_deadline_first(tr, n, exp, tnow) ==
    IF tx_expired(exp, tnow) THEN {Ready(tr, EngineTimeout, buff, info)}
    ELSE LET r == dev_check(tr, "check_transmit")
             tr1 == Append(tr, CallIn(n, "check_transmit", <<>>, r))
         IN  IF ~r.ok THEN {Ready(tr1, AsyncInner(r.val[1]), buff, info)}
             ELSE IF r.val[1] THEN {Ready(tr1, OkUnit, buff, info)}
             ELSE {Pending(tr1, buff, info)}
TransmitFuture_poll(tr, n, exp, tnow) ==
    LET r == dev_check(tr, "check_transmit")
        tr1 == Append(tr, CallIn(n, "check_transmit", <<>>, r))
    IN  IF ~r.ok THEN {Ready(tr1, AsyncInner(r.val[1]), buff, info)}
        ELSE IF r.val[1] THEN {Ready(tr1, OkUnit, buff, info)}
        ELSE IF tx_expired(exp, tnow) THEN {Ready(tr1, EngineTimeout, buff, info)}
        ELSE {Pending(tr1, buff, info)}

\* async_transmit up to the await: power override, then start_transmit
\* (faulty variant: the result of set_power dropped instead of propagated)
async_transmit_prologue_lenient(tr, n) ==
    LET hasP == opts.power # None
        rp == dev_unit(tr)
        tr1 == IF hasP THEN Append(tr, CallIn(n, "set_power", opts.power, rp)) ELSE tr
        rs == dev_unit(tr1)
        tr2 == Append(tr1, CallIn(n, "start_transmit", <<data>>, rs))
    IN  [trace |-> tr2, failed |-> ~rs.ok,
         result |-> IF rs.ok THEN NoResult ELSE AsyncInner(rs.val[1])]
async_transmit_prologue(tr, n) ==
    LET hasP == opts.power # None
        rp == dev_unit(tr)
        tr1 == IF hasP THEN Append(tr, CallIn(n, "set_power", opts.power, rp)) ELSE tr
    IN  IF hasP /\ ~rp.ok
        THEN [trace |-> tr1, failed |-> TRUE, result |-> AsyncInner(rp.val[1])]
        ELSE LET rs == dev_unit(tr1)
                 tr2 == Append(tr1, CallIn(n, "start_transmit", <<data>>, rs))
             IN  [trace |-> tr2, failed |-> ~rs.ok,
                  result |-> IF rs.ok THEN NoResult ELSE AsyncInner(rs.val[1])]

\* the restart flag ReceiveFuture::poll hands to check_receive
rxf_restart(tr) == TRUE

\* (faulty variant: the deadline never tested)
rxf_expired_never(exp, tnow) == FALSE
rxf_expired(exp, tnow) == exp # None /\ tnow > exp[1]

\* ReceiveFuture::poll up to its return value
\* (faulty variant: a satisfied check completes without the fetch)
ReceiveFuture_poll_unfetched(tr, n, exp, tnow) ==
    LET r == dev_check(tr, "check_receive")
        tr1 == Append(tr, CallIn(n, "check_receive", <<rxf_restart(tr)>>, r))
    IN  IF ~r.ok THEN {Ready(tr1, AsyncInner(r.val[1]), buff, info)}
        ELSE IF r.val[1] THEN {Ready(tr1, [kind |-> "Ok", n |-> 0], buff, info)}
        ELSE IF rxf_expired(exp, tnow) THEN {Ready(tr1, EngineTimeout, buff, info)}
        ELSE {Pending(tr1, buff, info)}
ReceiveFuture_poll(tr, n, exp, tnow) ==
    LET r == dev_check(tr, "check_receive")
        tr1 == Append(tr, CallIn(n, "check_receive", <<rxf_restart(tr)>>, r))
    IN  IF ~r.ok THEN {Ready(tr1, AsyncInner(r.val[1]), buff, info)}
        ELSE IF r.val[1]
        THEN { LET tr2 == Append(tr1, CallIn(n, "get_received", <<g.buff>>, g.ret))
               IN  IF g.ret.ok
                   THEN Ready(tr2, [kind |-> "Ok", n |-> g.ret.val[1]], g.buff, g.ret.val[2])
                   ELSE Ready(tr2, AsyncInner(g.ret.val[1]), buff, info)
               : g \in dev_get_received(tr1, buff) }
        ELSE IF rxf_expired(exp, tnow) THEN {Ready(tr1, EngineTimeout, buff, info)}
        ELSE {Pending(tr1, buff, info)}

\* async_receive up to the await: start_receive
async_receive_prologue(tr, n) ==
    LET rs == dev_unit(tr)
        tr1 == Append(tr, CallIn(n, "start_receive", <<>>, rs))
    IN  [trace |-> tr1, failed |-> ~rs.ok,
         result |-> IF rs.ok THEN NoResult ELSE AsyncInner(rs.val[1])]

\* if let Some(w) = s.wake_fn { w(cx, period) } else { cx.waker().clone().wake() }
\* async_std_task_waker sleeps for the period and then wakes the task.
\* (faulty variant: the waker woken at once even though a callback is supplied)
Rearm_both(o, n, tnow) ==
    [wake |-> "woken", wakeAt |-> wakeAt,
     req |-> IF o.wake_fn = None THEN <<n, "waker", 0>>
             ELSE <<n, "wake_fn", o.poll_period>>]
Rearm(o, n, tnow) ==
    IF o.wake_fn = None
    THEN [wake |-> "woken", wakeAt |-> wakeAt, req |-> <<n, "waker", 0>>]
    ELSE [wake |-> "armed", wakeAt |-> tnow + o.poll_period,
          req |-> <<n, "wake_fn", o.poll_period>>]

\* what a poll leaves behind, given the outcome of the future's poll
Settle(out, n, exp, tnow) ==
    /\ trace' = out.trace
    /\ buff' = out.buff
    /\ info' = out.info
    /\ polls' = n
    /\ now' = tnow
    /\ expiry' = exp
    /\ IF out.ready
       THEN /\ pc' = "done"
            /\ result' = out.result
            /\ wake' = "none"
            /\ UNCHANGED <<wakeAt, wakes>>
       ELSE /\ pc' = "pending"
            /\ result' = result
            /\ LET w == Rearm(opts, n, tnow) IN
                /\ wake' = w.wake
                /\ wakeAt' = w.wakeAt
                /\ wakes' = Append(wakes, w.req)

Polled == pc = "created" \/ (pc = "pending" /\ wake = "woken")

call_async_transmit ==
    /\ pc = "idle"
    /\ \E d \in Payloads, o \in AsyncOptionsSet, s \in ScriptsNoWait :
        /\ op' = "async_transmit"
        /\ data' = d
        /\ opts' = o
        /\ script' = s
    /\ pc' = "created"
    /\ UNCHANGED <<state, buff, c, result, trace, coop>>
    /\ UNCHANGED <<mock, regfile, link>>

async_transmit_poll ==
    /\ op = "async_transmit" /\ Polled /\ CanPoll
    /\ \E dt \in Elapse :
        LET n == polls + 1
            first == pc = "created"
            exp == IF first THEN expiry_of(opts, now) ELSE expiry
            pre == IF first THEN async_transmit_prologue(trace, n)
                   ELSE [trace |-> trace, failed |-> FALSE, result |-> NoResult]
        IN  IF pre.failed
            THEN Settle(Ready(pre.trace, pre.result, buff, info), n, exp, now + dt)
            ELSE \E out \in TransmitFuture_poll(pre.trace, n, exp, now + dt) :
                    Settle(out, n, exp, now + dt)
    /\ UNCHANGED <<op, opts, script, data, state, c>>
    /\ UNCHANGED <<mock, regfile, link>>

\* (faulty variant: start_receive issued by the call itself)
call_async_receive_eager ==
    /\ pc = "idle"
    /\ \E o \in AsyncOptionsSet, s \in ScriptsNoWait :
        /\ op' = "async_receive"
        /\ opts' = o
        /\ script' = s
        /\ trace' = <<CallIn(0, "start_receive", <<>>, Ok(<<>>))>>
    /\ pc' = "created"
    /\ UNCHANGED <<data, state, buff, c, result, coop>>
    /\ UNCHANGED <<mock, regfile, link>>
call_async_receive ==
    /\ pc = "idle"
    /\ \E o \in AsyncOptionsSet, s \in ScriptsNoWait :
        /\ op' = "async_receive"
        /\ opts' = o
        /\ script' = s
    /\ pc' = "created"
    /\ UNCHANGED <<data, state, buff, c, result, trace, coop>>
    /\ UNCHANGED <<mock, regfile, link>>

async_receive_poll ==
    /\ op = "async_receive" /\ Polled /\ CanPoll
    /\ \E dt \in Elapse :
        LET n == polls + 1
            first == pc = "created"
            exp == IF first THEN expiry_of(opts, now) ELSE expiry
            pre == IF first THEN async_receive_prologue(trace, n)
                   ELSE [trace |-> trace, failed |-> FALSE, result |-> NoResult]
        IN  IF pre.failed
            THEN Settle(Ready(pre.trace, pre.result, buff, info), n, exp, now + dt)
            ELSE \E out \in ReceiveFuture_poll(pre.trace, n, exp, now + dt) :
                    Settle(out, n, exp, now + dt)
    /\ UNCHANGED <<op, opts, script, data, state, c>>
    /\ UNCHANGED <<mock, regfile, link>>

Cooperative == op \in {"async_transmit", "async_receive"}

\* the timer armed by async_std_task_waker fires: waker.wake()
timer_fire ==
    /\ Cooperative /\ pc = "pending" /\ wake = "armed"
    /\ now >= wakeAt
    /\ wake' = "woken"
    /\ UNCHANGED <<op, pc, opts, script, data, state, buff, c, result, trace,
                   now, expiry, info, wakeAt, polls, wakes>>
    /\ UNCHANGED <<mock, regfile, link>>

\* the caller drops the future before it completed
\* (faulty variant: a Drop impl that puts the radio back to idle)
drop_future_aborting ==
    /\ Cooperative /\ pc \in {"created", "pending"}
    /\ pc' = "dropped"
    /\ trace' = Append(trace, CallIn(polls, "set_state", <<"Idle">>, Ok(<<>>)))
    /\ UNCHANGED <<op, opts, script, data, state, buff, c, result, coop>>
    /\ UNCHANGED <<mock, regfile, link>>
drop_future ==
    /\ Cooperative /\ pc \in {"created", "pending"}
    /\ pc' = "dropped"
    /\ UNCHANGED <<op, opts, script, data, state, buff, c, result, trace, coop>>
    /\ UNCHANGED <<mock, regfile, link>>

\* the wall clock advances while a future is alive
tick ==
    /\ Cooperative /\ pc \in {"created", "pending"}
    /\ now < ClockEnd
    /\ now' = now + 1000
    /\ UNCHANGED <<op, pc, opts, script, data, state, buff, c, result, trace,
                   expiry, info, wake, wakeAt, polls, wakes>>
    /\ UNCHANGED <<mock, regfile, link>>

-----------------------------------------------------------------------------
Next ==
    \/ call_do_transmit
    \/ do_transmit_start
    \/ do_transmit_check
    \/ do_transmit_delay
    \/ call_do_receive
    \/ do_receive_start
    \/ do_receive_check
    \/ do_receive_fetch
    \/ do_receive_delay
    \/ call_set_state_checked
    \/ set_state_checked_start
    \/ set_state_checked_check
    \/ set_state_checked_delay
    \/ call_async_transmit
    \/ async_transmit_poll
    \/ call_async_receive
    \/ async_receive_poll
    \/ timer_fire
    \/ drop_future
    \/ tick

Spec == Init /\ [][Next]_vars

-----------------------------------------------------------------------------
\* The cooperative engine under a scheduler that drives it: the future is
\* polled when it is created and after every wake, the timer of
\* async_std_task_waker fires, the future is not dropped, and the wall clock
\* keeps advancing: time does not stand still over a poll while the clock is
\* followed.
Advancing == now' > now \/ now = ClockEnd

driven_transmit_poll == async_transmit_poll /\ Advancing
driven_receive_poll == async_receive_poll /\ Advancing

DrivenNext ==
    \/ call_async_transmit
    \/ driven_transmit_poll
    \/ call_async_receive
    \/ driven_receive_poll
    \/ timer_fire
    \/ tick

SpecDriven ==
    /\ Init /\ [][DrivenNext]_vars
    /\ WF_vars(driven_transmit_poll)
    /\ WF_vars(driven_receive_poll)
    /\ WF_vars(timer_fire)
    /\ WF_vars(tick)

-----------------------------------------------------------------------------
\* blocking.rs at full width.  Duration::as_micros returns a u128 and the
\* elapsed counter is a u128, while delay_us takes a u32.  A microsecond count
\* beyond 31 bits is carried as the pair <<s, u>> that stands for
\* s * 1 000 000 + u, with u below 1 000 000; a Duration is its two fields,
\* whole seconds and the nanoseconds below one second.

MaxWraps == 2       \* largest multiple of 2^32 us among the poll intervals drawn
MaxRest == 1        \* largest rest, in microseconds, a poll interval drawn has above its multiple of 2^32 us
MaxWideFalse == 2   \* largest number of false checks a script of the full-width runs gives

Million == 1000000

Wide_add(a, b) ==
    LET u == a[2] + b[2] IN <<a[1] + b[1] + (u \div Million), u % Million>>

\* a - b, for a >= b
Wide_sub(a, b) ==
    IF a[2] >= b[2] THEN <<a[1] - b[1], a[2] - b[2]>>
    ELSE <<a[1] - b[1] - 1, a[2] + Million - b[2]>>

Wide_gt(a, b) == a[1] > b[1] \/ (a[1] = b[1] /\ a[2] > b[2])

RECURSIVE Wide_times(_, _)
Wide_times(k, a) == IF k = 0 THEN <<0, 0>> ELSE Wide_add(a, Wide_times(k - 1, a))

\* 2^32 = 4 294 967 296
TwoTo32 == <<4294, 967296>>

\* Duration::as_micros: secs * 1 000 000 + nanos / 1000, as u128
Duration_as_micros(d) == <<d.secs, d.nanos \div 1000>>

\* `as u32` of a u128: the low 32 bits, the value modulo 2^32
RECURSIVE as_u32(_)
as_u32(v) == IF Wide_gt(TwoTo32, v) THEN v ELSE as_u32(Wide_sub(v, TwoTo32))

\* Duration::from_micros
Duration_from_micros(v) == [secs |-> v[1], nanos |-> 1000 * v[2]]

\* poll intervals around the multiples of 2^32 us, some with nanoseconds that
\* as_micros drops; timeouts that allow several polls at these intervals
WidePolls ==
    {[secs |-> w[1], nanos |-> 1000 * w[2] + n] :
        w \in {Wide_add(Wide_times(k, TwoTo32), <<0, r>>) : k \in 0..MaxWraps, r \in 0..MaxRest},
        n \in {0, 999}}
    \cup {Duration_from_micros(Wide_sub(TwoTo32, <<0, 1>>))}
WideTimeouts == {Duration_from_micros(Wide_times(k, TwoTo32)) : k \in 0..(MaxWraps + 1)}

WideOptionsSet == [poll_interval : WidePolls, timeout : WideTimeouts]

WideScripts == {s \in Scripts : s.falses <= MaxWideFalse}

wide_call_do_transmit ==
    /\ pc = "idle"
    /\ \E d \in Payloads, o \in WideOptionsSet, s \in WideScripts :
        /\ op' = "do_transmit"
        /\ data' = d
        /\ opts' = o
        /\ script' = s
    /\ pc' = "wide start"
    /\ c' = <<0, 0>>
    /\ UNCHANGED <<state, buff, result, trace, coop>>
    /\ UNCHANGED <<mock, regfile, link>>

wide_call_do_receive ==
    /\ pc = "idle"
    /\ \E o \in WideOptionsSet, s \in WideScripts :
        /\ op' = "do_receive"
        /\ opts' = o
        /\ script' = s
    /\ pc' = "wide start"
    /\ c' = <<0, 0>>
    /\ UNCHANGED <<data, state, buff, result, trace, coop>>
    /\ UNCHANGED <<mock, regfile, link>>

\* self.start_transmit(data)? / self.start_receive()?; let mut c = 0;
wide_start ==
    /\ pc = "wide start" /\ CanCall
    /\ LET r == dev_unit(trace) IN
        /\ trace' = Append(trace, Call(IF op = "do_transmit" THEN "start_transmit"
                                       ELSE "start_receive",
                                       IF op = "do_transmit" THEN <<data>> ELSE <<>>, r))
        /\ IF r.ok
           THEN pc' = "wide check" /\ result' = result
           ELSE pc' = "done" /\ result' = Inner(r.val[1])
    /\ c' = <<0, 0>>
    /\ UNCHANGED <<op, opts, script, data, state, buff, coop>>
    /\ UNCHANGED <<mock, regfile, link>>

\* one pass of the loop up to the wait: the check, c += poll_interval.as_micros(),
\* c > t with t = timeout.as_micros()
wide_check ==
    /\ pc = "wide check" /\ CanCall
    /\ LET name == IF op = "do_transmit" THEN "check_transmit" ELSE "check_receive"
           r == dev_check(trace, name)
       IN
        /\ trace' = Append(trace, Call(name, IF op = "do_transmit" THEN <<>> ELSE <<TRUE>>, r))
        /\ IF ~r.ok
           THEN pc' = "done" /\ result' = Inner(r.val[1]) /\ c' = c
           ELSE IF r.val[1]
           THEN /\ c' = c
                /\ IF op = "do_transmit"
                   THEN pc' = "done" /\ result' = OkUnit
                   ELSE pc' = "wide fetch" /\ result' = result
           ELSE /\ c' = Wide_add(c, Duration_as_micros(opts.poll_interval))
                /\ IF Wide_gt(c', Duration_as_micros(opts.timeout))
                   THEN pc' = "done" /\ result' = EngineTimeout
                   ELSE pc' = "wide delay" /\ result' = result
    /\ UNCHANGED <<op, opts, script, data, state, buff, coop>>
    /\ UNCHANGED <<mock, regfile, link>>

\* let (n, i) = self.get_received(buff)?; return Ok((n, i));
wide_fetch ==
    /\ pc = "wide fetch" /\ CanCall
    /\ \E g \in dev_get_received(trace, buff) :
        /\ trace' = Append(trace, Call("get_received", <<g.buff>>, g.ret))
        /\ buff' = g.buff
        /\ result' = IF g.ret.ok THEN OkReceived(g.ret.val[1], g.ret.val[2])
                     ELSE Inner(g.ret.val[1])
    /\ pc' = "done"
    /\ UNCHANGED <<op, opts, script, data, state, c, coop>>
    /\ UNCHANGED <<mock, regfile, link>>

\* let _ = self.delay_us(poll_interval.as_micros() as u32);
wide_delay ==
    /\ pc = "wide delay" /\ CanCall
    /\ trace' = Append(trace, Call("delay_us",
                                   <<as_u32(Duration_as_micros(opts.poll_interval))>>,
                                   dev_wait(trace)))
    /\ pc' = "wide check"
    /\ UNCHANGED <<op, opts, script, data, state, buff, c, result, coop>>
    /\ UNCHANGED <<mock, regfile, link>>

WideNext ==
    \/ wide_call_do_transmit
    \/ wide_call_do_receive
    \/ wide_start
    \/ wide_check
    \/ wide_fetch
    \/ wide_delay

SpecWide == Init /\ [][WideNext]_vars

-----------------------------------------------------------------------------
\* helpers.rs: do_receive, on the device's calls themselves.  The capture
\* options are pcap_file = None, pcap_pipe = None, for which
\* PcapOptions::open returns Ok(None) and nothing is written.

MaxHelperPoll == 1     \* largest poll interval the helpers are handed, in microseconds
MaxHelperTimeout == 1  \* largest timeout the helpers are handed, in microseconds
MaxHelperFalse == 2    \* largest number of false checks a script of the helpers gives before true
MaxHelperErrAt == 5    \* latest device call a script of the helpers lets fail
MaxRounds == 2         \* most rounds a link test is asked for

\* ReceiveOptions { continuous, pcap_options, blocking_options }
ReceiveOptionsSet ==
    [continuous : BOOLEAN,
     blocking_options : [poll_interval : {1000 * u : u \in 0..MaxHelperPoll},
                         timeout : {1000 * u : u \in 0..MaxHelperTimeout}]]

\* scripts as above; once the check has come true it stays true, so that a
\* continuous receive is handed a packet at every later poll
HelperScripts ==
    { s \in [falses : 0..MaxHelperFalse, never : BOOLEAN, errAt : 0..MaxHelperErrAt,
             err : Errors, waitErrAt : 0..1] :
        /\ (s.never => s.falses = 0)
        /\ (s.errAt = 0 => s.err = "Timeout")
        /\ (s.waitErrAt > 0 => s.errAt = 0) }

\* Result<(usize, I), E>: the device's error as it is, no BlockingError
HelperErr(e) == [kind |-> "Err", err |-> e]

call_helpers_do_receive ==
    /\ pc = "idle"
    /\ \E o \in ReceiveOptionsSet, s \in HelperScripts :
        /\ op' = "helpers::do_receive"
        /\ opts' = o
        /\ script' = s
    /\ pc' = "start"
    /\ UNCHANGED <<data, state, buff, c, result, trace, coop>>
    /\ UNCHANGED <<mock, regfile, link>>

\* radio.start_receive()?;
helpers_do_receive_start ==
    /\ op = "helpers::do_receive" /\ pc = "start" /\ CanCall
    /\ LET r == dev_unit(trace) IN
        /\ trace' = Append(trace, Call("start_receive", <<>>, r))
        /\ IF r.ok
           THEN pc' = "check" /\ result' = result
           ELSE pc' = "done" /\ result' = HelperErr(r.val[1])
    /\ UNCHANGED <<op, opts, script, data, state, buff, c, coop>>
    /\ UNCHANGED <<mock, regfile, link>>

\* if radio.check_receive(true)? { .. }
helpers_do_receive_check ==
    /\ op = "helpers::do_receive" /\ pc = "check" /\ CanCall
    /\ LET r == dev_check(trace, "check_receive") IN
        /\ trace' = Append(trace, Call("check_receive", <<TRUE>>, r))
        /\ IF ~r.ok
           THEN pc' = "done" /\ result' = HelperErr(r.val[1])
           ELSE /\ pc' = IF r.val[1] THEN "fetch" ELSE "delay"
                /\ result' = result
    /\ UNCHANGED <<op, opts, script, data, state, buff, c, coop>>
    /\ UNCHANGED <<mock, regfile, link>>

\* if !options.continuous { return Ok((n, info)) }
\* (faulty variant: the first packet returned in continuous mode as well)
returns_packet_always(o) == TRUE
returns_packet(o) == ~o.continuous

\* let (n, info) = radio.get_received(&mut buff)?; .. return or go on
helpers_do_receive_fetch ==
    /\ op = "helpers::do_receive" /\ pc = "fetch" /\ CanCall
    /\ \E g \in dev_get_received(trace, buff) :
        /\ trace' = Append(trace, Call("get_received", <<g.buff>>, g.ret))
        /\ buff' = g.buff
        /\ IF ~g.ret.ok
           THEN pc' = "done" /\ result' = HelperErr(g.ret.val[1])
           ELSE IF returns_packet(opts)
           THEN pc' = "done" /\ result' = OkReceived(g.ret.val[1], g.ret.val[2])
           ELSE pc' = "restart" /\ result' = result
    /\ UNCHANGED <<op, opts, script, data, state, c, coop>>
    /\ UNCHANGED <<mock, regfile, link>>

\* radio.start_receive()?; (continuous mode, after a packet)
helpers_do_receive_restart ==
    /\ op = "helpers::do_receive" /\ pc = "restart" /\ CanCall
    /\ LET r == dev_unit(trace) IN
        /\ trace' = Append(trace, Call("start_receive", <<>>, r))
        /\ IF r.ok
           THEN pc' = "delay" /\ result' = result
           ELSE pc' = "done" /\ result' = HelperErr(r.val[1])
    /\ UNCHANGED <<op, opts, script, data, state, buff, c, coop>>
    /\ UNCHANGED <<mock, regfile, link>>

\* radio.delay_us(poll_interval.as_micros() as u32).unwrap();
helpers_do_receive_delay ==
    /\ op = "helpers::do_receive" /\ pc = "delay" /\ CanCall
    /\ LET r == dev_wait(trace) IN
        /\ trace' = Append(trace, Call("delay_us",
                                       <<as_micros(opts.blocking_options.poll_interval)>>, r))
        /\ pc' = IF r.ok THEN "check" ELSE "panicked"
    /\ UNCHANGED <<op, opts, script, data, state, buff, c, result, coop>>
    /\ UNCHANGED <<mock, regfile, link>>

-----------------------------------------------------------------------------
\* helpers.rs: do_ping_pong.  Its two engine operations, radio.do_transmit
\* and radio.do_receive of blocking.rs, are one step each here: the step
\* draws one of the outcomes the engine has (Ok, Timeout, Inner(e)) and
\* records the operation, with that outcome, as one entry of trace whose
\* poll field is the index of the round.  Stats<f32> is the sequence of the
\* samples it was updated with.

\* let mut buff = [0u8; 32];
PingBuff == [j \in 1..32 |-> 0]

Powers == {None, <<10>>}

\* PingPongOptions { rounds, power, delay, parse_info, blocking_options }
PingPongOptionsSet ==
    [rounds : 0..MaxRounds, power : Powers, delay : {0, 100000000},
     parse_info : BOOLEAN,
     blocking_options : [poll_interval : {1000 * MaxHelperPoll},
                         timeout : {1000 * MaxHelperTimeout}]]

\* what a peer may answer: the index echoed, the index with the peer's rssi
\* appended, the index in the other byte order, and a packet too short to
\* hold an index
PongPackets ==
    {<<0, 0, 0, 0>>, <<0, 0, 0, 1>>, <<1, 0, 0, 0>>, <<0, 0, 0, 2>>,
     <<0, 0, 0, 0, 255, 175>>, <<0, 0, 0, 1, 255, 175>>, <<0, 0>>}

\* NetworkEndian::write_u32(&mut buff[0..], i)
write_u32(b, i) ==
    [j \in DOMAIN b |->
        IF j = 1 THEN (i \div 16777216) % 256
        ELSE IF j = 2 THEN (i \div 65536) % 256
        ELSE IF j = 3 THEN (i \div 256) % 256
        ELSE IF j = 4 THEN i % 256
        ELSE b[j]]

\* NetworkEndian::read_u32(&buff[0..n]); the slice holds four bytes at least
\* (faulty variant: the bytes taken in the other order)
read_u32_little_endian(b) == ((b[4] * 256 + b[3]) * 256 + b[2]) * 256 + b[1]
read_u32(b) == ((b[1] * 256 + b[2]) * 256 + b[3]) * 256 + b[4]

\* NetworkEndian::read_i16(&buff[4..n]); the slice holds two bytes at least
read_i16(b) ==
    LET v == b[1] * 256 + b[2] IN IF v >= 32768 THEN v - 65536 ELSE v

\* Ok(link_info)
OkLink(l) == [kind |-> "Ok", sent |-> l.sent, received |-> l.received,
              local_rssi |-> l.local_rssi, remote_rssi |-> l.remote_rssi]

\* outcomes of BlockingTransmit::do_transmit
TransmitOutcomes == {OkUnit, EngineTimeout} \cup {Inner(e) : e \in Errors}

\* outcomes of BlockingReceive::do_receive on the buffer b, with the buffer
\* it leaves
ReceiveOutcomes(b) ==
    {[ret |-> r, buff |-> b] : r \in {EngineTimeout} \cup {Inner(e) : e \in Errors}}
    \cup {[ret |-> OkReceived(Len(d), i),
           buff |-> [j \in DOMAIN b |-> IF j <= Len(d) THEN d[j] ELSE b[j]]] :
              d \in PongPackets, i \in Infos}

\* let mut link_info = LinkTestInfo { sent: options.rounds, received: 0, .. };
call_do_ping_pong ==
    /\ pc = "idle"
    /\ \E o \in PingPongOptionsSet :
        /\ op' = "do_ping_pong"
        /\ opts' = o
        /\ link' = [sent |-> o.rounds, received |-> 0, local_rssi |-> <<>>,
                    remote_rssi |-> <<>>, i |-> 0]
    /\ buff' = PingBuff
    /\ pc' = "power"
    /\ UNCHANGED <<script, data, state, c, result, trace, coop>>
    /\ UNCHANGED <<mock, regfile>>

\* if let Some(p) = options.power { radio.set_power(p)?; }
do_ping_pong_power ==
    /\ op = "do_ping_pong" /\ pc = "power"
    /\ IF opts.power = None
       THEN pc' = "transmit" /\ UNCHANGED <<result, trace>>
       ELSE \E r \in {Ok(<<>>)} \cup {Err(e) : e \in Errors} :
              /\ trace' = Append(trace, CallIn(0, "set_power", opts.power, r))
              /\ IF r.ok
                 THEN pc' = "transmit" /\ result' = result
                 ELSE pc' = "done" /\ result' = Inner(r.val[1])
    /\ UNCHANGED <<op, opts, script, data, state, buff, c, coop>>
    /\ UNCHANGED <<mock, regfile, link>>

\* for i in 0..options.rounds { write_u32(&mut buff[0..], i); let n = 4;
\*     radio.do_transmit(&buff[0..n], options.blocking_options.clone())?;
do_ping_pong_transmit ==
    /\ op = "do_ping_pong" /\ pc = "transmit" /\ link.i < opts.rounds
    /\ buff' = write_u32(buff, link.i)
    /\ data' = SubSeq(buff', 1, 4)
    /\ \E r \in TransmitOutcomes :
        /\ trace' = Append(trace, CallIn(link.i, "do_transmit", <<data'>>, r))
        /\ IF r = OkUnit
           THEN pc' = "receive" /\ result' = result
           ELSE pc' = "done" /\ result' = r
    /\ UNCHANGED <<op, opts, script, state, c, coop>>
    /\ UNCHANGED <<mock, regfile, link>>

\* the rounds are over: Ok(link_info)
do_ping_pong_return ==
    /\ op = "do_ping_pong" /\ pc = "transmit" /\ link.i = opts.rounds
    /\ pc' = "done"
    /\ result' = OkLink(link)
    /\ UNCHANGED <<op, opts, script, data, state, buff, c, trace, coop>>
    /\ UNCHANGED <<mock, regfile, link>>

\* the next round of the loop
NextRound(l) == [l EXCEPT !.i = @ + 1]

\* let (n, info) = match radio.do_receive(&mut buff, ..) { Ok(n) => n,
\*     Err(BlockingError::Timeout) => continue, Err(e) => return Err(e) };
\* if read_u32(&buff[0..n]) != i { continue; }
\* let remote_rssi = match parse_info { true => Some(read_i16(&buff[4..n])), .. };
\* link_info.received += 1; local_rssi.update(..); remote_rssi.update(..);
do_ping_pong_receive ==
    /\ op = "do_ping_pong" /\ pc = "receive"
    /\ \E g \in ReceiveOutcomes(buff) :
        /\ trace' = Append(trace, CallIn(link.i, "do_receive", <<g.buff>>, g.ret))
        /\ buff' = g.buff
        /\ IF g.ret = EngineTimeout
           THEN pc' = "transmit" /\ link' = NextRound(link) /\ result' = result
           ELSE IF g.ret.kind = "Inner"
           THEN pc' = "done" /\ link' = link /\ result' = g.ret
           ELSE IF g.ret.n < 4
           THEN pc' = "panicked" /\ link' = link /\ result' = result
           ELSE IF read_u32(SubSeq(g.buff, 1, g.ret.n)) # link.i
           THEN pc' = "transmit" /\ link' = NextRound(link) /\ result' = result
           ELSE IF opts.parse_info /\ g.ret.n < 6
           THEN pc' = "panicked" /\ link' = link /\ result' = result
           ELSE /\ pc' = "delay"
                /\ result' = result
                /\ link' = [link EXCEPT
                      !.received = @ + 1,
                      !.local_rssi = Append(@, g.ret.info.rssi),
                      !.remote_rssi =
                          IF opts.parse_info
                          THEN Append(@, read_i16(SubSeq(g.buff, 5, g.ret.n)))
                          ELSE @]
    /\ UNCHANGED <<op, opts, script, data, state, c, coop>>
    /\ UNCHANGED <<mock, regfile>>

\* radio.delay_us(options.delay.as_micros() as u32).unwrap(); }
do_ping_pong_delay ==
    /\ op = "do_ping_pong" /\ pc = "delay"
    /\ \E r \in {Ok(<<>>), Err(WaitError)} :
        /\ trace' = Append(trace, CallIn(link.i, "delay_us", <<as_micros(opts.delay)>>, r))
        /\ IF r.ok
           THEN pc' = "transmit" /\ link' = NextRound(link)
           ELSE pc' = "panicked" /\ link' = link
    /\ UNCHANGED <<op, opts, script, data, state, buff, c, result, coop>>
    /\ UNCHANGED <<mock, regfile>>

HelpersNext ==
    \/ call_helpers_do_receive
    \/ helpers_do_receive_start
    \/ helpers_do_receive_check
    \/ helpers_do_receive_fetch
    \/ helpers_do_receive_restart
    \/ helpers_do_receive_delay
    \/ call_do_ping_pong
    \/ do_ping_pong_power
    \/ do_ping_pong_transmit
    \/ do_ping_pong_return
    \/ do_ping_pong_receive
    \/ do_ping_pong_delay

SpecHelpers == Init /\ [][HelpersNext]_vars
-----------------------------------------------------------------------------
\* mock.rs: the mock radio, a queue of expected transactions consumed by the
\* calls a test makes on it

\* enum Request: the operation and all its arguments
Request_SetState(st) == <<"SetState", st>>
Request_GetState == <<"GetState">>
Request_IsBusy == <<"IsBusy">>
Request_SetRegister(r, v) == <<"SetRegister", r, v>>
Request_GetRegister == <<"GetRegister">>
Request_GetIrq(clear) == <<"GetIrq", clear>>
Request_PollRssi == <<"PollRssi">>
Request_SetChannel(ch) == <<"SetChannel", ch>>
Request_SetPower(p) == <<"SetPower", p>>
Request_StartTransmit(d) == <<"StartTransmit", d>>
Request_CheckTransmit == <<"CheckTransmit">>
Request_StartReceive == <<"StartReceive">>
Request_CheckReceive(restart) == <<"CheckReceive", restart>>
Request_GetReceived == <<"GetReceived">>
Request_DelayNs(ns) == <<"DelayNs", ns>>

\* enum Response
Response_Ok == <<"Ok">>
Response_State(st) == <<"State", st>>
Response_Register(v) == <<"Register", v>>
Response_Irq(v) == <<"Irq", v>>
Response_Rssi(v) == <<"Rssi", v>>
Response_Received(d, i) == <<"Received", d, i>>
Response_Bool(b) == <<"Bool", b>>
Response_Err(e) == <<"Err", e>>

\* impl From<Option<E>> for Response
\* (faulty variant: no error turned into Bool(true))
Response_from_bool(e) == IF e = None THEN Response_Bool(TRUE) ELSE Response_Err(e[1])
Response_from(e) == IF e = None THEN Response_Ok ELSE Response_Err(e[1])

\* res.map_or_else(Response::Err, Response::<variant>)
map_or_else(res, variant) ==
    IF res.ok THEN <<variant, res.val>> ELSE Response_Err(res.val[1])

\* struct Transaction { request, response } and its factory functions
Transaction(req, resp) == [request |-> req, response |-> resp]

Transaction_set_state(st, err) == Transaction(Request_SetState(st), Response_from(err))
Transaction_get_state(res) == Transaction(Request_GetState, map_or_else(res, "State"))
Transaction_is_busy(res) == Transaction(Request_IsBusy, map_or_else(res, "Bool"))
Transaction_set_register(r, v, err) ==
    Transaction(Request_SetRegister(r, v), Response_from(err))
Transaction_get_register(res) == Transaction(Request_GetRegister, map_or_else(res, "Register"))
Transaction_set_channel(ch, err) == Transaction(Request_SetChannel(ch), Response_from(err))
Transaction_set_power(p, err) == Transaction(Request_SetPower(p), Response_from(err))
Transaction_start_transmit(d, err) == Transaction(Request_StartTransmit(d), Response_from(err))
Transaction_check_transmit(res) == Transaction(Request_CheckTransmit, map_or_else(res, "Bool"))
Transaction_start_receive(err) == Transaction(Request_StartReceive, Response_from(err))
Transaction_check_receive(restart, res) ==
    Transaction(Request_CheckReceive(restart), map_or_else(res, "Bool"))
Transaction_get_received(res) ==
    Transaction(Request_GetReceived,
                IF res.ok THEN Response_Received(res.val[1], res.val[2])
                ELSE Response_Err(res.val[1]))
Transaction_get_irq(clear, res) == Transaction(Request_GetIrq(clear), map_or_else(res, "Irq"))
Transaction_poll_rssi(res) == Transaction(Request_PollRssi, map_or_else(res, "Rssi"))
Transaction_delay_ns(ns) == Transaction(Request_DelayNs(ns), Response_Ok)

\* What the tests of this model queue and call with
MockErrs == {None, Some("Timeout")}
MockStates == {"Idle", "Sleep"}
MockChannels == {10}
MockPowers == {10}
MockIrqs == {1}
MockRssis == {-81}
MockDelays == {0, 100}
ExpectedData == {<<170, 187>>}
CalledData == {<<170, 187>>, <<170, 188>>, <<170>>, <<170, 187, 204>>}
Buffers == {<<1, 2, 3>>, <<1>>}
BoolResults == {Ok(TRUE), Ok(FALSE), Err("Timeout")}

Expectations ==
    {Transaction_set_state(st, None) : st \in MockStates}
    \cup {Transaction_set_state("Idle", Some("Timeout"))}
    \cup {Transaction_get_state(Ok("Idle"))}
    \cup {Transaction_is_busy(Ok(TRUE))}
    \cup {Transaction_set_channel(ch, None) : ch \in MockChannels}
    \cup {Transaction_set_power(p, None) : p \in MockPowers}
    \cup {Transaction_start_transmit(d, e) : d \in ExpectedData, e \in MockErrs}
    \cup {Transaction_check_transmit(r) : r \in BoolResults}
    \cup {Transaction_start_receive(None)}
    \cup {Transaction_check_receive(TRUE, Ok(FALSE))}
    \cup {Transaction_check_receive(FALSE, Ok(TRUE))}
    \cup {Transaction_get_received(Ok(<<d, i>>)) : d \in ExpectedData, i \in Infos}
    \cup {Transaction_get_received(Err("Timeout"))}
    \cup {Transaction_get_irq(TRUE, Ok(v)) : v \in MockIrqs}
    \cup {Transaction_poll_rssi(Ok(v)) : v \in MockRssis}
    \cup {Transaction_delay_ns(ns) : ns \in MockDelays}

SeqsUpTo(S, n) == UNION {[1..k -> S] : k \in 0..n}

\* Radio::new(expectations)
MockInit ==
    /\ NoOperation /\ NoRegisters
    /\ expected \in SeqsUpTo(Expectations, MaxQueue)
    /\ queue = expected
    /\ calls = <<>>
    /\ mbuff = <<>>
    /\ panic = None
    /\ finished = FALSE

\* the test is still running: no call has panicked and done() has not returned
Running == panic = None /\ ~finished

\* Radio::next: the head of the queue, which leaves the queue
\* (faulty variant: an empty queue answers with a default expectation)
Radio_next_lenient(q) == IF q = <<>> THEN Some(Transaction_delay_ns(0)) ELSE Some(Head(q))
Radio_next(q) == IF q = <<>> THEN None ELSE Some(Head(q))
Radio_rest(q) == IF q = <<>> THEN q ELSE Tail(q)

\* &n.request == &Request::X(args): derived PartialEq, the variant and every
\* field by value; byte vectors compare by length and content
\* (faulty variant: the bytes compared over the shorter length only)
vec_eq_prefix(a, b) ==
    \A j \in (DOMAIN a) \cap (DOMAIN b) : a[j] = b[j]
vec_eq(a, b) ==
    Len(a) = Len(b) /\ \A j \in DOMAIN a : a[j] = b[j]

\* (faulty variant: only the operation compared, the arguments ignored)
request_eq_kind(a, b) == a[1] = b[1]
request_eq(a, b) ==
    /\ a[1] = b[1]
    /\ IF a[1] = "StartTransmit" THEN vec_eq(a[2], b[2]) ELSE a = b

\* unreachable!()
Unreachable == [unreachable |-> TRUE]
IsUnreachable(res) == "unreachable" \in DOMAIN res

\* match &n.response of the handlers returning Result<(), E>
\* (faulty variant: an error response swallowed)
unit_response_ok(r) ==
    IF r[1] \in {"Ok", "Err"} THEN Ok(<<>>) ELSE Unreachable
unit_response(r) ==
    IF r[1] = "Ok" THEN Ok(<<>>)
    ELSE IF r[1] = "Err" THEN Err(r[2])
    ELSE Unreachable

\* match &n.response of the handlers returning Result<T, E>, T carried by
\* the one Response variant the handler accepts
\* (faulty variant: the value replaced by the one of the next transaction)
value_response_ahead(r, variant) ==
    IF queue # <<>> /\ Len(queue) > 1 /\ queue[2].response[1] = variant
    THEN Ok(queue[2].response[2])
    ELSE IF r[1] = variant THEN Ok(r[2])
    ELSE IF r[1] = "Err" THEN Err(r[2])
    ELSE Unreachable
value_response(r, variant) ==
    IF r[1] = variant THEN Ok(r[2])
    ELSE IF r[1] = "Err" THEN Err(r[2])
    ELSE Unreachable

\* an entry of calls: the request made, the buffer handed in (get_received
\* only) and the value returned, None when the call panicked
Returned(req, b, res) == [request |-> req, buff |-> b, ret |-> Some(res)]
Panicked(req, b) == [request |-> req, buff |-> b, ret |-> None]

\* let n = self.next().expect(..); assert_eq!(&n.request, &req);
\* match &n.response { .. }: the three steps every handler starts with
Handle(req, res, b) ==
    /\ Running
    /\ queue' = Radio_rest(queue)
    /\ IF Radio_next(queue) = None
       THEN panic' = Some("no expectation") /\ calls' = Append(calls, Panicked(req, b))
       ELSE IF ~request_eq(Radio_next(queue)[1].request, req)
       THEN panic' = Some("assert_eq") /\ calls' = Append(calls, Panicked(req, b))
       ELSE IF IsUnreachable(res)
       THEN panic' = Some("unreachable") /\ calls' = Append(calls, Panicked(req, b))
       ELSE panic' = panic /\ calls' = Append(calls, Returned(req, b, res))
    /\ UNCHANGED <<expected, finished, engine, regfile>>

\* the response of the head transaction (only read when there is one)
HeadResponse == IF queue = <<>> THEN Response_Ok ELSE Head(queue).response

\* impl DelayNs for Radio: the response is not looked at
\* (faulty variant: a wait that consumes and checks nothing)
mock_delay_ns_unchecked ==
    /\ Running
    /\ \E ns \in MockDelays :
        calls' = Append(calls, Returned(Request_DelayNs(ns), <<>>, Ok(<<>>)))
    /\ UNCHANGED <<queue, expected, mbuff, panic, finished, engine, regfile>>
mock_delay_ns ==
    \E ns \in MockDelays :
        Handle(Request_DelayNs(ns), Ok(<<>>), <<>>) /\ UNCHANGED mbuff

mock_set_state ==
    \E st \in MockStates :
        Handle(Request_SetState(st), unit_response(HeadResponse), <<>>) /\ UNCHANGED mbuff

mock_get_state ==
    Handle(Request_GetState, value_response(HeadResponse, "State"), <<>>) /\ UNCHANGED mbuff

mock_is_busy ==
    Handle(Request_IsBusy, value_response(HeadResponse, "Bool"), <<>>) /\ UNCHANGED mbuff

mock_set_channel ==
    \E ch \in MockChannels :
        Handle(Request_SetChannel(ch), unit_response(HeadResponse), <<>>) /\ UNCHANGED mbuff

mock_set_power ==
    \E p \in MockPowers \cup {-10} :
        Handle(Request_SetPower(p), unit_response(HeadResponse), <<>>) /\ UNCHANGED mbuff

mock_poll_rssi ==
    Handle(Request_PollRssi, value_response(HeadResponse, "Rssi"), <<>>) /\ UNCHANGED mbuff

mock_get_interrupts ==
    \E clear \in BOOLEAN :
        Handle(Request_GetIrq(clear), value_response(HeadResponse, "Irq"), <<>>) /\ UNCHANGED mbuff

mock_start_transmit ==
    \E d \in CalledData :
        Handle(Request_StartTransmit(d), unit_response(HeadResponse), <<>>) /\ UNCHANGED mbuff

mock_check_transmit ==
    Handle(Request_CheckTransmit, value_response(HeadResponse, "Bool"), <<>>) /\ UNCHANGED mbuff

mock_start_receive ==
    Handle(Request_StartReceive, unit_response(HeadResponse), <<>>) /\ UNCHANGED mbuff

mock_check_receive ==
    \E restart \in BOOLEAN :
        Handle(Request_CheckReceive(restart), value_response(HeadResponse, "Bool"), <<>>)
        /\ UNCHANGED mbuff

\* buff[..d.len()].copy_from_slice(&d)
\* (faulty variant: the bytes after the packet cleared)
copy_from_slice_clearing(b, d) ==
    [j \in DOMAIN b |-> IF j <= Len(d) THEN d[j] ELSE 0]
copy_from_slice(b, d) ==
    [j \in DOMAIN b |-> IF j <= Len(d) THEN d[j] ELSE b[j]]

\* Receive::get_received: Received(d, i) is copied into the caller's buffer,
\* which must be long enough for the slice buff[..d.len()] to exist
mock_get_received ==
    \E b \in Buffers :
        LET n == Radio_next(queue)
            matches == n # None /\ request_eq(n[1].request, Request_GetReceived)
            r == HeadResponse
        IN  IF matches /\ r[1] = "Received"
            THEN IF Len(r[2]) > Len(b)
                 THEN /\ Running
                      /\ queue' = Radio_rest(queue)
                      /\ panic' = Some("slice index")
                      /\ calls' = Append(calls, Panicked(Request_GetReceived, b))
                      /\ mbuff' = b
                      /\ UNCHANGED <<expected, finished, engine, regfile>>
                 ELSE /\ Handle(Request_GetReceived, Ok(<<Len(r[2]), r[3]>>), b)
                      /\ mbuff' = copy_from_slice(b, r[2])
            ELSE /\ Handle(Request_GetReceived,
                           IF r[1] = "Err" THEN Err(r[2]) ELSE Unreachable, b)
                 /\ mbuff' = b

\* Radio::done: every expectation must have been consumed
\* (faulty variant: done() never complains)
done_passes_always(q) == TRUE
done_passes(q) == q = <<>>

mock_done ==
    /\ Running
    /\ IF done_passes(queue)
       THEN finished' = TRUE /\ panic' = panic
       ELSE finished' = finished /\ panic' = Some("done")
    /\ UNCHANGED <<queue, expected, calls, mbuff, engine, regfile>>

MockNext ==
    \/ mock_delay_ns
    \/ mock_set_state
    \/ mock_get_state
    \/ mock_is_busy
    \/ mock_set_channel
    \/ mock_set_power
    \/ mock_poll_rssi
    \/ mock_get_interrupts
    \/ mock_start_transmit
    \/ mock_check_transmit
    \/ mock_start_receive
    \/ mock_check_receive
    \/ mock_get_received
    \/ mock_done

SpecMock == MockInit /\ [][MockNext]_vars

\* Everything the factory functions build, each with a value and with an
\* error, and a mock radio built with at most MaxBuilt of these
MaxBuilt == 1
MockRegisters == {3}

Built ==
    {Transaction_set_state(st, e) : st \in MockStates, e \in MockErrs}
    \cup {Transaction_get_state(r) : r \in {Ok("Idle"), Err("Timeout")}}
    \cup {Transaction_is_busy(r) : r \in BoolResults}
    \cup {Transaction_set_register(r, 1, e) : r \in MockRegisters, e \in MockErrs}
    \cup {Transaction_get_register(r) : r \in {Ok(1), Err("Timeout")}}
    \cup {Transaction_set_channel(ch, e) : ch \in MockChannels, e \in MockErrs}
    \cup {Transaction_set_power(p, e) : p \in MockPowers, e \in MockErrs}
    \cup {Transaction_start_transmit(d, e) : d \in ExpectedData, e \in MockErrs}
    \cup {Transaction_check_transmit(r) : r \in BoolResults}
    \cup {Transaction_start_receive(e) : e \in MockErrs}
    \cup {Transaction_check_receive(f, r) : f \in BOOLEAN, r \in BoolResults}
    \cup {Transaction_get_received(Ok(<<d, i>>)) : d \in ExpectedData, i \in Infos}
    \cup {Transaction_get_received(Err("Timeout"))}
    \cup {Transaction_get_irq(f, r) : f \in BOOLEAN, r \in {Ok(1), Err("Timeout")}}
    \cup {Transaction_poll_rssi(r) : r \in {Ok(-81), Err("Timeout")}}
    \cup {Transaction_delay_ns(ns) : ns \in MockDelays}

BuiltInit ==
    /\ NoOperation /\ NoRegisters
    /\ expected \in SeqsUpTo(Built, MaxBuilt)
    /\ queue = expected
    /\ calls = <<>>
    /\ mbuff = <<>>
    /\ panic = None
    /\ finished = FALSE

SpecBuilt == BuiltInit /\ [][MockNext]_vars

-----------------------------------------------------------------------------
\* lib.rs: trait Registers.  read_register and write_register are the
\* device's; update_register is the provided read-modify-write.  The register
\* is storage of the device: besides update_register, the caller and any other
\* writer of the device reach it through read_register / write_register.

\* Words a register holds at the start, and the words another writer writes
Words == {0, 1, 2}
OtherWords == {1, 7}

\* The functions handed to update_register: the closure of the tests
\* (|r| if r.value == 1 { 2 } else { 3 }), a doubling on u8, the identity
Functions == {"test", "double", "same"}
Apply(f, v) ==
    IF f = "test" THEN (IF v = 1 THEN 2 ELSE 3)
    ELSE IF f = "double" THEN (2 * v) % 256
    ELSE v

\* an access to the register: who, read or write, the word carried, whether
\* the device answered Ok
Access(who, acc, v, ok) == [who |-> who, acc |-> acc, val |-> v, ok |-> ok]

OtherWrites(tr) == Cardinality({i \in DOMAIN tr : tr[i].who = "other"})

RegInit ==
    /\ NoOperation /\ NoMock
    /\ reg \in Words
    /\ rf \in Functions
    /\ rerr \in {"none", "read", "write"}
    /\ rpc = "idle"
    /\ existing = 0
    /\ rresult = NoResult
    /\ rtrace = <<>>

\* device.update_register(f) is called
call_update_register ==
    /\ rpc = "idle"
    /\ rpc' = "read"
    /\ UNCHANGED <<reg, rf, rerr, existing, rresult, rtrace, engine, mock>>

\* let existing = self.read_register()?;
\* (faulty variant: the failure of the read not propagated)
after_read_always(ok) == "write"
after_read(ok) == IF ok THEN "write" ELSE "done"

update_register_read ==
    /\ rpc = "read"
    /\ LET ok == rerr # "read" IN
        /\ rtrace' = Append(rtrace, Access("update", "read", reg, ok))
        /\ existing' = IF ok THEN reg ELSE existing
        /\ rpc' = after_read(ok)
        /\ rresult' = IF ok THEN rresult ELSE Err("Timeout")
    /\ UNCHANGED <<reg, rf, rerr, engine, mock>>

\* let updated = f(existing);
\* (faulty variant: f applied to what the register holds at the write)
updated_fresh(f, ex, current) == Apply(f, current)
updated(f, ex, current) == Apply(f, ex)

\* self.write_register(updated)?; Ok(updated)
update_register_write ==
    /\ rpc = "write"
    /\ LET ok == rerr # "write"
           v == updated(rf, existing, reg)
       IN  /\ rtrace' = Append(rtrace, Access("update", "write", v, ok))
           /\ reg' = IF ok THEN v ELSE reg
           /\ rresult' = IF ok THEN Ok(v) ELSE Err("Timeout")
    /\ rpc' = "done"
    /\ UNCHANGED <<rf, rerr, existing, engine, mock>>

\* another writer of the same register: write_register(w), at any time
other_write ==
    /\ OtherWrites(rtrace) < MaxOther
    /\ \E w \in OtherWords :
        /\ reg' = w
        /\ rtrace' = Append(rtrace, Access("other", "write", w, TRUE))
    /\ UNCHANGED <<rpc, rf, rerr, existing, rresult, engine, mock>>

\* the caller reads the register back after update_register returned
read_back ==
    /\ rpc = "done"
    /\ rtrace' = Append(rtrace, Access("caller", "read", reg, TRUE))
    /\ rpc' = "read back"
    /\ UNCHANGED <<reg, rf, rerr, existing, rresult, engine, mock>>

RegNext ==
    \/ call_update_register
    \/ update_register_read
    \/ update_register_write
    \/ other_write
    \/ read_back

SpecReg == RegInit /\ [][RegNext]_vars

-----------------------------------------------------------------------------
\* Vocabulary of the properties

BlockingOps == {"do_transmit", "do_receive", "set_state_checked"}
Blocking == op \in BlockingOps

StartOf(o) ==
    CASE o \in {"do_transmit", "async_transmit"} -> "start_transmit"
      [] o \in {"do_receive", "async_receive"} -> "start_receive"
      [] OTHER -> "set_state"

CheckOf(o) ==
    CASE o \in {"do_transmit", "async_transmit"} -> "check_transmit"
      [] o \in {"do_receive", "async_receive"} -> "check_receive"
      [] OTHER -> "get_state"

CheckCalls == {"check_transmit", "check_receive", "get_state"}

\* the check of trace entry e was satisfied / was not
CheckTrue(e) ==
    /\ e.call \in CheckCalls /\ e.ret.ok
    /\ IF e.call = "get_state" THEN e.ret.val[1] = state ELSE e.ret.val[1]
CheckFalse(e) ==
    /\ e.call \in CheckCalls /\ e.ret.ok
    /\ IF e.call = "get_state" THEN e.ret.val[1] # state ELSE ~e.ret.val[1]

Last(tr) == tr[Len(tr)]

\* microsecond values the blocking loops read from their options
PollUs == as_micros(opts.poll_interval)
TimeoutUs == as_micros(opts.timeout)

\* the script answers false exactly script.falses times and then true, and
\* no device call fails
FalsesThenTrue == script.errAt = 0 /\ ~script.never
\* the script never answers true and no device call fails
NeverTrue == script.errAt = 0 /\ script.never

-----------------------------------------------------------------------------
\* C1: for a positive poll interval p and a timeout t, against a device whose
\* check_transmit returns false exactly k times and then true, do_transmit
\* returns, and it returns Ok iff k*p <= t and Timeout otherwise.
C1_TransmitOkIffWithinBudget ==
    (op = "do_transmit" /\ FalsesThenTrue /\ PollUs > 0) =>
        /\ pc # "done" => CanCall
        /\ pc = "done" =>
            /\ (result = OkUnit <=> script.falses * PollUs <= TimeoutUs)
            /\ (result = EngineTimeout <=> script.falses * PollUs > TimeoutUs)

\* a transmit that succeeded with its budget used up exactly (k*p = t, k = 2)
C1_Witness ==
    /\ op = "do_transmit" /\ pc = "done" /\ FalsesThenTrue
    /\ script.falses = 2 /\ PollUs = 2 /\ TimeoutUs = 4
    /\ result = OkUnit

\* C2: with a positive poll interval p and a check that never returns true
\* and never fails, every blocking operation ends with Timeout after exactly
\* floor(t/p)+1 check calls and floor(t/p) wait calls.
C2_TimeoutAfterExactPolls ==
    (Blocking /\ NeverTrue /\ PollUs > 0) =>
        /\ Count(trace, CheckOf(op)) <= TimeoutUs \div PollUs + 1
        /\ pc # "done" => CanCall
        /\ pc = "done" =>
            /\ result = EngineTimeout
            /\ Count(trace, CheckOf(op)) = TimeoutUs \div PollUs + 1
            /\ Count(trace, "delay_us") = TimeoutUs \div PollUs

\* a receive that timed out after 5 checks and 4 waits (p = 1, t = 4)
C2_Witness ==
    /\ op = "do_receive" /\ pc = "done" /\ NeverTrue
    /\ PollUs = 1 /\ TimeoutUs = 4
    /\ result = EngineTimeout
    /\ Count(trace, "check_receive") = 5

\* C3: set_state_checked returns Ok only when the get_state call it just made
\* returned the target state itself; and when get_state returns other states
\* exactly k times and then the target, the result is Ok iff k*p <= t and
\* Timeout otherwise (p, t the microseconds of poll_interval and timeout).
C3_SetStateCheckedExact ==
    op = "set_state_checked" =>
        /\ result = OkUnit =>
            /\ Len(trace) >= 2
            /\ Last(trace).call = "get_state"
            /\ Last(trace).ret = Ok(<<state>>)
        /\ (FalsesThenTrue /\ pc = "done") =>
            /\ (result = OkUnit <=> script.falses * PollUs <= TimeoutUs)
            /\ (result = EngineTimeout <=> script.falses * PollUs > TimeoutUs)
        /\ (FalsesThenTrue /\ pc # "done") => CanCall

\* a set_state_checked(Sleep) that saw Idle, a different state, and went on
\* polling until Sleep
C3_Witness ==
    /\ op = "set_state_checked" /\ pc = "done" /\ result = OkUnit
    /\ state = "Sleep" /\ script.falses = 2
    /\ \E i \in DOMAIN trace : trace[i].call = "get_state" /\ trace[i].ret = Ok(<<"Idle">>)

\* C4: in a receive operation (do_receive, async_receive) get_received is
\* called at most once, directly after the one check_receive that returned
\* true (in the same poll), and is the last call; it is never called after a
\* false check, a Timeout or a device error.
C4_FetchOnceAfterTrueCheck ==
    op \in {"do_receive", "async_receive"} =>
        /\ Count(trace, "get_received") <= 1
        /\ Cardinality({i \in DOMAIN trace : CheckTrue(trace[i])}) <= 1
        /\ \A i \in DOMAIN trace :
            trace[i].call = "get_received" =>
                /\ i > 1 /\ i = Len(trace)
                /\ trace[i - 1].call = "check_receive"
                /\ CheckTrue(trace[i - 1])
                /\ trace[i - 1].poll = trace[i].poll
        /\ \A i \in DOMAIN trace :
            (~trace[i].ret.ok \/ CheckFalse(trace[i])) =>
                (i < Len(trace) => trace[i + 1].call # "get_received")
        /\ result = EngineTimeout => Count(trace, "get_received") = 0

\* a blocking receive that fetched its packet after two false checks
C4_Witness ==
    /\ op = "do_receive" /\ pc = "done" /\ script.falses = 2
    /\ Last(trace).call = "get_received" /\ Last(trace).ret.ok

C6_StartErrorAborts ==
    (Blocking /\ Len(trace) >= 1 /\ ~trace[1].ret.ok) =>
        /\ trace[1].call = StartOf(op)
        /\ Len(trace) = 1
        /\ pc = "done"
        /\ result = [kind |-> "Inner", err |-> trace[1].ret.val[1]]

\* a set_state_checked whose set_state failed
C6_Witness ==
    /\ op = "set_state_checked" /\ Len(trace) = 1
    /\ trace[1].call = "set_state" /\ trace[1].ret = Err("Crc")

\* C7: if a check or fetch call of an engine operation returns a device error
\* e, the operation ends with Inner(e), e unchanged; that call is the last one
\* (no further device or wait call, no wake request, no retry).
C7_CheckErrorPropagates ==
    \A i \in DOMAIN trace :
        (trace[i].call \in CheckCalls \cup {"get_received"} /\ ~trace[i].ret.ok) =>
            /\ i = Len(trace)
            /\ pc = "done"
            /\ result = [kind |-> "Inner", err |-> trace[i].ret.val[1]]
            /\ \A w \in DOMAIN wakes : wakes[w][1] # trace[i].poll

\* a blocking receive whose second check failed with the device's Timeout error
C7_Witness ==
    /\ op = "do_receive" /\ Len(trace) = 4
    /\ trace[2].call = "check_receive" /\ CheckFalse(trace[2])
    /\ trace[4].call = "check_receive" /\ trace[4].ret = Err("Timeout")

\* C8: the engine's Timeout comes only from the engine's own expiry test: an
\* operation ends with Timeout only if every device call returned Ok and the
\* budget was overrun (counter > timeout, or clock > expiry), and a device
\* error named Timeout comes back as Inner(Timeout), which is not Timeout.
C8_TimeoutOnlyFromEngine ==
    /\ result = EngineTimeout =>
        /\ \A i \in DOMAIN trace : trace[i].call # "delay_us" => trace[i].ret.ok
        /\ IF Blocking THEN c > TimeoutUs
           ELSE expiry # None /\ now > expiry[1]
    /\ (\E i \in DOMAIN trace : trace[i].call # "delay_us" /\ ~trace[i].ret.ok) =>
        /\ result.kind = "Inner"
        /\ result # EngineTimeout
        /\ result.err = Last(trace).ret.val[1]

\* a transmit whose device failed with MockError::Timeout
C8_Witness ==
    /\ op = "do_transmit" /\ pc = "done"
    /\ Len(trace) = 2 /\ trace[2].ret = Err("Timeout")
    /\ result.kind = "Inner"

\* C9: when an operation ends with Timeout, the last call it issued is the
\* check that returned false: nothing (no start, set_state, wait or wake
\* request) follows that check, and the operation is over.
C9_NothingAfterTimeout ==
    result = EngineTimeout =>
        /\ pc = "done"
        /\ Len(trace) >= 2
        /\ Last(trace).call = CheckOf(op)
        /\ CheckFalse(Last(trace))
        /\ \A w \in DOMAIN wakes : wakes[w][1] # Last(trace).poll

\* a cooperative transmit that timed out in its third poll
C9_Witness ==
    /\ op = "async_transmit" /\ result = EngineTimeout /\ polls = 3

\* C10: the restart flag handed to check_receive is the same on every polling
\* iteration of a receive operation, blocking and cooperative.
C10_RestartFlagConstant ==
    \A i, j \in DOMAIN trace :
        (trace[i].call = "check_receive" /\ trace[j].call = "check_receive") =>
            trace[i].arg = trace[j].arg

\* a receive that has polled three times
C10_Witness ==
    /\ op = "do_receive" /\ Count(trace, "check_receive") = 3

\* C11: when do_receive succeeds, the length and info it returns and the
\* bytes in the caller's buffer are exactly what the device's get_received
\* call produced; the engine changes none of them.
C11_ReceivedPassedThrough ==
    (op = "do_receive" /\ result.kind = "Ok") =>
        /\ Last(trace).call = "get_received"
        /\ Last(trace).ret = Ok(<<result.n, result.info>>)
        /\ buff = Last(trace).arg[1]

\* bytes [0xAA, 0xBB] with rssi -81: length 2, buffer prefix [0xAA, 0xBB]
C11_Witness ==
    /\ op = "do_receive" /\ pc = "done" /\ result.kind = "Ok"
    /\ result.n = 2 /\ result.info.rssi = -81
    /\ SubSeq(buff, 1, 2) = <<170, 187>>
    /\ Count(trace, "delay_us") = 1

-----------------------------------------------------------------------------
\* Vocabulary of the properties of the mock radio

HasReturned(e) == e.ret # None
Returns(e) == e.ret[1]
KindOf(e) == e.request[1]
\* the call has an expectation at its position in the list
Queued(i) == i <= Len(expected)

\* C12: the mock consumes its queue in strict FIFO order: the i-th call is
\* compared with the i-th expectation, operation and all arguments by value;
\* the first call that differs panics at that call (not at done()), and every
\* call before it has returned.
C12_StrictFifo ==
    \A i \in DOMAIN calls :
        /\ i < Len(calls) => HasReturned(calls[i])
        /\ Queued(i) =>
            /\ HasReturned(calls[i]) => calls[i].request = expected[i].request
            /\ calls[i].request # expected[i].request =>
                /\ ~HasReturned(calls[i])
                /\ i = Len(calls)
                /\ panic = Some("assert_eq")
                /\ ~finished

\* set_state(Sleep) called where set_state(Idle) is expected, after a call
\* that matched
C12_Witness ==
    /\ Len(calls) = 2 /\ Len(expected) = 2
    /\ HasReturned(calls[1])
    /\ expected[2].request = Request_SetState("Idle")
    /\ calls[2].request = Request_SetState("Sleep")
    /\ panic = Some("assert_eq")

\* C13: a capability or wait call made when the queue is empty panics at
\* once ("no expectation for this call") and returns nothing.
C13_EmptyQueuePanics ==
    [][(queue = <<>> /\ calls' # calls) =>
          /\ panic' = Some("no expectation")
          /\ ~HasReturned(calls'[Len(calls')])
          /\ Len(calls') = Len(calls) + 1]_vars

\* a wait call made after the only expectation was consumed
C13_Witness ==
    /\ Len(expected) = 1 /\ Len(calls) = 2
    /\ KindOf(calls[2]) = "DelayNs"
    /\ panic = Some("no expectation")

\* C14: every call that returns removes exactly the head of the queue, so
\* after n matching calls against m expectations done() succeeds iff n = m
\* and panics while an expectation is left.
C14_DoneIffAllConsumed ==
    /\ panic \in {None, Some("done")} =>
        /\ Len(calls) <= Len(expected)
        /\ Len(queue) = Len(expected) - Len(calls)
        /\ \A j \in DOMAIN queue : queue[j] = expected[Len(calls) + j]
    /\ finished => (panic = None /\ Len(calls) = Len(expected))
    /\ panic = Some("done") => (~finished /\ Len(calls) < Len(expected))

\* done() called after one of two expectations was consumed
C14_Witness ==
    /\ Len(expected) = 2 /\ Len(calls) = 1 /\ HasReturned(calls[1])
    /\ panic = Some("done")

\* C15: start_transmit(data) matches an expected start_transmit iff data is
\* the expected byte sequence, byte for byte and of the same length.
C15_TransmitDataExact ==
    \A i \in DOMAIN calls :
        (Queued(i) /\ KindOf(calls[i]) = "StartTransmit"
                   /\ expected[i].request[1] = "StartTransmit") =>
            LET sent == calls[i].request[2]
                want == expected[i].request[2]
            IN  HasReturned(calls[i]) <=>
                    /\ Len(sent) = Len(want)
                    /\ \A j \in 1..Len(want) : sent[j] = want[j]

\* a start_transmit with one byte more than expected
C15_Witness ==
    /\ Len(calls) = 1 /\ Len(expected) >= 1
    /\ expected[1].request = Request_StartTransmit(<<170, 187>>)
    /\ calls[1].request = Request_StartTransmit(<<170, 187, 204>>)
    /\ panic = Some("assert_eq")

\* C16: get_received against a queued (d, info) and a buffer of at least
\* len(d) bytes returns (len(d), info), writes d to the front of the buffer
\* and leaves the rest as it was; against a queued error it returns that
\* error and leaves the buffer as it was.
C16_GetReceivedCopiesPrefix ==
    \A i \in DOMAIN calls :
        (Queued(i) /\ KindOf(calls[i]) = "GetReceived"
                   /\ expected[i].request = Request_GetReceived) =>
            LET r == expected[i].response
                b == calls[i].buff
            IN  /\ (r[1] = "Received" /\ Len(b) >= Len(r[2])) =>
                    /\ HasReturned(calls[i])
                    /\ Returns(calls[i]) = Ok(<<Len(r[2]), r[3]>>)
                    /\ i = Len(calls) =>
                        /\ Len(mbuff) = Len(b)
                        /\ \A j \in DOMAIN b :
                            mbuff[j] = IF j <= Len(r[2]) THEN r[2][j] ELSE b[j]
                /\ r[1] = "Err" =>
                    /\ HasReturned(calls[i])
                    /\ Returns(calls[i]) = Err(r[2])
                    /\ i = Len(calls) => mbuff = b

\* [0xAA, 0xBB] copied into a three-byte buffer: the third byte stays
C16_Witness ==
    /\ Len(calls) = 1 /\ HasReturned(calls[1])
    /\ KindOf(calls[1]) = "GetReceived"
    /\ calls[1].buff = <<1, 2, 3>>
    /\ mbuff = <<170, 187, 3>>

\* the canned answer of a response
Canned(r) ==
    IF r[1] = "Ok" THEN Ok(<<>>)
    ELSE IF r[1] = "Err" THEN Err(r[2])
    ELSE IF r[1] = "Received" THEN Ok(<<Len(r[2]), r[3]>>)
    ELSE Ok(r[2])

\* C17: what a matching call returns is the canned response of the
\* transaction it consumed, so the calls return the queued responses in
\* queue order, and a response queued as an error comes back as that error.
C17_ReturnsCannedResponse ==
    \A i \in DOMAIN calls :
        HasReturned(calls[i]) =>
            /\ Queued(i)
            /\ Returns(calls[i]) = Canned(expected[i].response)

\* two check_transmit calls against [Ok(false), Ok(true)]
C17_Witness ==
    /\ Len(calls) = 2
    /\ calls[1].request = Request_CheckTransmit /\ calls[1].ret = Some(Ok(FALSE))
    /\ calls[2].request = Request_CheckTransmit /\ calls[2].ret = Some(Ok(TRUE))

-----------------------------------------------------------------------------
\* Vocabulary of the properties of the cooperative engine

\* the checks issued in poll n
ChecksIn(n) == {i \in DOMAIN trace : trace[i].poll = n /\ trace[i].call = CheckOf(op)}
\* the power or start call of the first poll failed: the future that checks
\* was never built
PrologueFailed ==
    \E i \in DOMAIN trace :
        trace[i].call \in {"set_power", StartOf(op)} /\ ~trace[i].ret.ok
\* every device call was issued inside a poll
CallsInsidePolls == \A i \in DOMAIN trace : trace[i].poll \in 1..polls

\* C19 as stated: every poll of a cooperative operation issues exactly one
\* check; a check that returns true is followed in the same poll by the fetch
\* (receive) and the poll completes with success; no device call is issued
\* outside a poll.
C19_OneCheckPerPollThenSuccess ==
    Cooperative =>
        /\ CallsInsidePolls
        /\ \A n \in 1..polls : Cardinality(ChecksIn(n)) = 1
        /\ \A i \in DOMAIN trace :
            (trace[i].call = CheckOf(op) /\ CheckTrue(trace[i])) =>
                /\ pc = "done" /\ result.kind = "Ok"
                /\ trace[i].poll = polls
                /\ IF op = "async_receive"
                   THEN /\ Len(trace) = i + 1
                        /\ trace[i + 1].call = "get_received"
                        /\ trace[i + 1].poll = polls
                   ELSE Len(trace) = i

\* C19, amended: every poll issues exactly one check, except a first poll
\* whose power or start call fails, which issues none; a check that returns
\* true is followed in the same poll by the fetch (receive) and the poll
\* completes: with success when there is no fetch or the fetch returns Ok,
\* with the fetch's error otherwise; no device call is issued outside a poll.
C19_OneCheckPerPollThenFetch ==
    Cooperative =>
        /\ CallsInsidePolls
        /\ \A n \in 1..polls :
            Cardinality(ChecksIn(n)) = IF n = 1 /\ PrologueFailed THEN 0 ELSE 1
        /\ \A i \in DOMAIN trace :
            (trace[i].call = CheckOf(op) /\ CheckTrue(trace[i])) =>
                /\ pc = "done"
                /\ trace[i].poll = polls
                /\ IF op = "async_receive"
                   THEN /\ Len(trace) = i + 1
                        /\ trace[i + 1].call = "get_received"
                        /\ trace[i + 1].poll = polls
                        /\ IF trace[i + 1].ret.ok
                           THEN result.kind = "Ok"
                           ELSE result = AsyncInner(trace[i + 1].ret.val[1])
                   ELSE Len(trace) = i /\ result = OkUnit

\* a cooperative receive whose second poll saw the check come true, fetched
\* and completed
C19_Witness ==
    /\ op = "async_receive" /\ pc = "done" /\ polls = 2
    /\ result.kind = "Ok"
    /\ Cardinality(ChecksIn(1)) = 1 /\ Cardinality(ChecksIn(2)) = 1
    /\ Last(trace).call = "get_received" /\ Last(trace).poll = 2

\* C20: a poll whose check returned false completes with Timeout, requesting
\* no wake, when a deadline is set and the clock is past it; in every other
\* case it requests exactly one wake and suspends.  A suspended future has
\* therefore always requested a wake.
C20_WakeOrTimeout ==
    [][/\ (/\ Cooperative /\ polls' = polls + 1
           /\ Last(trace').call = CheckOf(op) /\ CheckFalse(Last(trace'))) =>
              IF expiry' # None /\ now' > expiry'[1]
              THEN /\ pc' = "done" /\ result' = EngineTimeout
                   /\ wakes' = wakes /\ wake' = "none"
              ELSE /\ pc' = "pending" /\ result' = NoResult
                   /\ Len(wakes') = Len(wakes) + 1
                   /\ Last(wakes')[1] = polls'
                   /\ wake' \in {"armed", "woken"}
       /\ pc' = "pending" =>
              /\ wake' \in {"armed", "woken"}
              /\ Len(wakes') = polls']_vars

\* a cooperative transmit suspended for the second time with its deadline
\* reached but not passed
C20_Witness ==
    /\ op = "async_transmit" /\ pc = "pending" /\ polls = 2
    /\ expiry # None /\ now = expiry[1]
    /\ Len(wakes) = 2 /\ wake \in {"armed", "woken"}
    /\ CheckFalse(Last(trace))

\* C21: a poll that re-arms without a wake_fn wakes the task's waker itself,
\* inside the poll, and returns Pending without any wait; with a wake_fn it
\* calls wake_fn exactly once, with the options' poll period, and leaves the
\* waker alone (the waker is woken only later, by what wake_fn started).
C21_RearmByWakerOrCallback ==
    [][(Cooperative /\ polls' = polls + 1 /\ pc' = "pending") =>
          /\ Count(trace', "delay_us") = 0
          /\ Len(wakes') = Len(wakes) + 1
          /\ IF opts.wake_fn = None
             THEN /\ Last(wakes') = <<polls', "waker", 0>>
                  /\ wake' = "woken"
             ELSE /\ Last(wakes') = <<polls', "wake_fn", opts.poll_period>>
                  /\ wake' = "armed"
                  /\ wakeAt' = now' + opts.poll_period]_vars

\* a pending receive that handed a non-zero poll period to its wake_fn and
\* is still waiting for the timer
C21_Witness ==
    /\ op = "async_receive" /\ pc = "pending" /\ polls = 2
    /\ opts.wake_fn # None /\ opts.poll_period = 1000
    /\ wakes[2] = <<2, "wake_fn", 1000>>
    /\ wake = "armed" /\ now < wakeAt

\* C22 as stated: the start call (and the power override) of a cooperative
\* operation is issued when the future is created, before and independently
\* of its first poll: a future that was created and never polled has already
\* issued a call to the device.
C22_StartAtCreation ==
    (Cooperative /\ polls = 0) => Len(trace) >= 1

\* C22, amended: the start call (and the power override) is issued in the
\* first poll of the future, before that poll's check; a future that was
\* created and never polled has issued no call to the device.
C22_StartInFirstPoll ==
    Cooperative =>
        /\ polls = 0 => trace = <<>>
        /\ polls >= 1 =>
            /\ Len(trace) >= 1
            /\ Count(trace, StartOf(op)) <= 1
            /\ \A i \in DOMAIN trace :
                /\ trace[i].call \in {"set_power", StartOf(op)} => trace[i].poll = 1
                /\ trace[i].call = CheckOf(op) =>
                    \E j \in 1..(i - 1) : trace[j].call = StartOf(op) /\ trace[j].ret.ok
            /\ ~PrologueFailed => Count(trace, StartOf(op)) = 1

\* a receive future created and dropped without a poll: the device has not
\* been called
C22_Witness ==
    /\ op = "async_receive" /\ pc = "dropped" /\ polls = 0 /\ trace = <<>>

\* C23: async_transmit issues set_power(p) exactly once, as its first call
\* and before start_transmit, iff the options carry power = Some(p); with
\* power = None it never issues set_power; when set_power returns the device
\* error e the operation ends with Inner(e) and issues neither start_transmit
\* nor a check.
C23_PowerOverrideFirst ==
    (op = "async_transmit" /\ polls >= 1) =>
        /\ Count(trace, "set_power") = IF opts.power = None THEN 0 ELSE 1
        /\ opts.power # None =>
            /\ trace[1].call = "set_power" /\ trace[1].arg = opts.power
            /\ trace[1].ret.ok =>
                (Len(trace) >= 2 /\ trace[2].call = "start_transmit")
            /\ ~trace[1].ret.ok =>
                /\ Len(trace) = 1
                /\ pc = "done"
                /\ result = AsyncInner(trace[1].ret.val[1])
        /\ opts.power = None => trace[1].call = "start_transmit"

\* a transmit whose power override was refused by the device
C23_Witness ==
    /\ op = "async_transmit" /\ pc = "done" /\ opts.power = Some(10)
    /\ Len(trace) = 1 /\ trace[1].call = "set_power" /\ trace[1].ret = Err("Crc")
    /\ result = AsyncInner("Crc")

\* C24: dropping a cooperative future before it completed issues no device
\* call: the trace of a dropped operation is the trace as its last poll left
\* it, nothing is appended.
C24_DropIssuesNothing ==
    [][(pc' = "dropped" \/ pc = "dropped") =>
          (trace' = trace /\ polls' = polls /\ result' = result)]_vars

\* a transmit dropped while suspended after its second poll
C24_Witness ==
    /\ op = "async_transmit" /\ pc = "dropped" /\ polls = 2
    /\ Len(trace) = 3 /\ Last(trace).call = "check_transmit" /\ Last(trace).poll = 2
    /\ result = NoResult

\* The device calls of a transmit / receive that a script determines, whatever
\* engine runs it: start, falses+1 checks, the fetch of a receive; cut at the
\* call the script lets fail.
Receiving == op \in {"do_receive", "async_receive"}
RefFull == 1 + (script.falses + 1) + (IF Receiving THEN 1 ELSE 0)
RefFails == script.errAt \in 1..RefFull
RefLen == IF RefFails THEN script.errAt ELSE RefFull
RefCall(j) ==
    IF j = 1 THEN StartOf(op)
    ELSE IF j <= script.falses + 2 THEN CheckOf(op)
    ELSE "get_received"
NotWait(e) == e.call # "delay_us"
DeviceCalls(tr) == SelectSeq(tr, NotWait)

\* C25: against a script (check false k times then true, or a device error
\* at some call) on which the operation does not time out, the cooperative
\* operation without power override and the blocking operation issue the
\* same device calls, the blocking waits left out: start, the checks, the
\* fetch of a receive, up to the failing call; and they end with the same
\* outcome, success or Inner(e).
C25_SameCallsAsBlocking ==
    (/\ op \in {"do_transmit", "do_receive", "async_transmit", "async_receive"}
     /\ pc = "done" /\ result # EngineTimeout /\ ~script.never
     /\ Cooperative => opts.power = None) =>
        LET dc == DeviceCalls(trace) IN
        /\ Len(dc) = RefLen
        /\ \A j \in 1..RefLen :
            /\ dc[j].call = RefCall(j)
            /\ dc[j].ret.ok <=> ~(RefFails /\ j = RefLen)
        /\ IF RefFails
           THEN result.kind = "Inner" /\ result.err = script.err
           ELSE result.kind = "Ok"

\* a cooperative receive that saw two false checks, then true, and fetched
C25_Witness ==
    /\ op = "async_receive" /\ pc = "done" /\ opts.power = None
    /\ script.falses = 2 /\ script.errAt = 0
    /\ Len(trace) = 5 /\ result.kind = "Ok"

-----------------------------------------------------------------------------
\* Vocabulary of the properties of update_register

UpdateReads == {i \in DOMAIN rtrace : rtrace[i].who = "update" /\ rtrace[i].acc = "read"}
UpdateWrites == {i \in DOMAIN rtrace : rtrace[i].who = "update" /\ rtrace[i].acc = "write"}
\* another writer wrote between accesses i and k
OtherBetween(i, k) == \E m \in (i + 1)..(k - 1) : rtrace[m].who = "other"

\* C26: update_register(f) issues one read_register and then one
\* write_register of f(value read) and returns f(value read); when no other
\* writer comes in between, a read_register after it returns f(old value);
\* when the read fails nothing is written and the read's error is returned.
C26_ReadModifyWrite ==
    /\ Cardinality(UpdateReads) <= 1 /\ Cardinality(UpdateWrites) <= 1
    /\ \A j \in UpdateWrites :
        \E i \in UpdateReads :
            /\ i < j /\ rtrace[i].ok
            /\ rtrace[j].val = Apply(rf, rtrace[i].val)
    /\ rpc \in {"done", "read back"} =>
        /\ Cardinality(UpdateReads) = 1
        /\ \A i \in UpdateReads :
            IF rtrace[i].ok
            THEN /\ Cardinality(UpdateWrites) = 1
                 /\ \A j \in UpdateWrites :
                        rtrace[j].ok => rresult = Ok(Apply(rf, rtrace[i].val))
            ELSE /\ UpdateWrites = {}
                 /\ ~rresult.ok
    /\ \A i \in UpdateReads, j \in UpdateWrites, k \in DOMAIN rtrace :
        (/\ rtrace[k].who = "caller" /\ j < k
         /\ rtrace[j].ok /\ ~OtherBetween(i, k)) =>
            rtrace[k].val = Apply(rf, rtrace[i].val)

\* the register held 1, the closure of the tests was applied, the read back
\* gives 2, and no other writer was there
C26_Witness ==
    /\ rpc = "read back" /\ rf = "test" /\ Len(rtrace) = 3
    /\ rtrace[1] = Access("update", "read", 1, TRUE)
    /\ rtrace[2] = Access("update", "write", 2, TRUE)
    /\ rtrace[3] = Access("caller", "read", 2, TRUE)
    /\ rresult = Ok(2)

\* C27: update_register is not atomic: between its read and its write another
\* writer can write the register, and update_register then still writes
\* f(value read earlier), so that the other writer's value is lost.
C27_LostUpdate ==
    \A i \in UpdateReads, j \in UpdateWrites :
        (OtherBetween(i, j) /\ rtrace[j].ok) =>
            /\ rtrace[j].val = Apply(rf, rtrace[i].val)
            /\ j = Len(rtrace) => reg = Apply(rf, rtrace[i].val)

\* the register held 2; update_register(double) read 2, another writer wrote
\* 7, update_register wrote 4: neither 7 nor double(7) is in the register
C27_Witness ==
    /\ rpc = "done" /\ rf = "double" /\ Len(rtrace) = 3
    /\ rtrace[1] = Access("update", "read", 2, TRUE)
    /\ rtrace[2] = Access("other", "write", 7, TRUE)
    /\ rtrace[3] = Access("update", "write", 4, TRUE)
    /\ reg = 4

-----------------------------------------------------------------------------
\* Further properties of the blocking engine

\* C28 as stated: the options of a blocking operation can carry a power
\* override, and when they do the engine issues set_power as the first call
\* of the operation, before the start call.
C28_BlockingPowerOverride ==
    (Blocking /\ Len(trace) >= 1) =>
        /\ "power" \in DOMAIN opts
        /\ opts.power # None =>
            (trace[1].call = "set_power" /\ trace[1].arg = opts.power)

FailedChecks == {i \in DOMAIN trace : trace[i].call = CheckOf(op) /\ CheckFalse(trace[i])}

\* C29: a blocking operation calls the wait primitive exactly once after
\* every failed check that does not end it with Timeout, and nowhere else:
\* not before the first check, not after a satisfied check, not after the
\* check that ends in Timeout, not after a device error; so an operation that
\* ended with success or Timeout made one wait fewer than checks.
C29_WaitOnlyAfterFailedCheck ==
    Blocking =>
        LET failed == FailedChecks IN
        /\ \A i \in DOMAIN trace :
            /\ trace[i].call = "delay_us" => (i > 1 /\ (i - 1) \in failed)
            /\ (i \in failed /\ i < Len(trace)) => trace[i + 1].call = "delay_us"
        /\ Len(trace) \in failed =>
            \/ pc = "delay" /\ result = NoResult /\ c <= TimeoutUs
            \/ pc = "done" /\ result = EngineTimeout /\ c > TimeoutUs
        /\ pc = "delay" => Len(trace) \in failed
        /\ (pc = "done" /\ result.kind \in {"Ok", "Timeout"}) =>
            Count(trace, "delay_us") = Count(trace, CheckOf(op)) - 1

\* a set_state_checked that saw two other states, waited twice and succeeded
C29_Witness ==
    /\ op = "set_state_checked" /\ pc = "done" /\ result = OkUnit
    /\ Count(trace, "get_state") = 3 /\ Count(trace, "delay_us") = 2

\* C30: throughout a blocking operation the elapsed counter is the number of
\* failed checks so far times the poll interval (in microseconds): it is 0
\* when the operation starts, grows by the poll interval with every failed
\* check and never otherwise, and every check is made with a counter that
\* does not exceed the timeout.
C30_CounterIsFailedChecksTimesPoll ==
    Blocking =>
        LET failed == FailedChecks IN
        /\ c = Cardinality(failed) * PollUs
        /\ \A i \in DOMAIN trace :
            trace[i].call = CheckOf(op) =>
                Cardinality({j \in failed : j < i}) * PollUs <= TimeoutUs
        /\ pc = "check" => c <= TimeoutUs

\* a transmit about to make its third check with the counter at 2 * 2 = 4,
\* the timeout itself
C30_Witness ==
    /\ op = "do_transmit" /\ pc = "check"
    /\ PollUs = 2 /\ TimeoutUs = 4
    /\ Cardinality(FailedChecks) = 2 /\ c = 4

-----------------------------------------------------------------------------
\* Vocabulary of C31: what the options and the device's responses settle

\* the failed check at which the counter overruns the timeout (0: never)
OverrunAt == IF PollUs = 0 THEN 0 ELSE (TimeoutUs \div PollUs) + 1

\* the checks at which the script and the options let the loop end
Ends ==
    {j \in 1..MaxCalls :
        \/ script.errAt = j + 1
        \/ (~script.never /\ j > script.falses)
        \/ j = OverrunAt}

Least(S) == CHOOSE j \in S : \A k \in S : j <= k

RefChecks == IF script.errAt = 1 \/ Ends = {} THEN 0 ELSE Least(Ends)

RefKind ==
    IF script.errAt = 1 THEN "Inner"
    ELSE IF Ends = {} THEN "None"
    ELSE IF script.errAt = RefChecks + 1 THEN "Inner"
    ELSE IF ~script.never /\ RefChecks > script.falses
         THEN (IF op = "do_receive" /\ script.errAt = RefChecks + 2 THEN "Inner" ELSE "Ok")
    ELSE "Timeout"

\* C31: the outcome of a blocking operation and the number of checks and of
\* device calls it made are settled by the options and the device's
\* responses alone: whatever wall-clock time the calls took, a finished
\* operation has made the number of checks, and has the outcome, computed
\* from poll_interval, timeout and the script.
C31_OutcomeIgnoresWallClock ==
    (Blocking /\ pc = "done") =>
        /\ Count(trace, CheckOf(op)) = RefChecks
        /\ DevCalls(trace) = 1 + RefChecks
                             + (IF op = "do_receive" /\ Count(trace, "get_received") = 1
                                THEN 1 ELSE 0)
        /\ result.kind = RefKind
        /\ result.kind = "Inner" => result.err = script.err

\* a transmit that succeeded at its third check although the wall clock was
\* past its timeout before the first check was made
C31_Witness ==
    /\ op = "do_transmit" /\ pc = "done" /\ result = OkUnit
    /\ Count(trace, "check_transmit") = 3
    /\ now = Overdue /\ now > opts.timeout
    /\ script.waitErrAt = 0

-----------------------------------------------------------------------------
\* the waits that returned an error
FailedWaits == {i \in DOMAIN trace : trace[i].call = "delay_us" /\ ~trace[i].ret.ok}

\* C37: an error returned by the wait primitive inside a blocking operation
\* is discarded: the operation goes on with the next check (it is at the
\* check, or the check is the next call in its history), the error is never
\* the operation's outcome, and the elapsed counter has been advanced by
\* poll_interval for the failed check before that wait all the same.
C37_WaitErrorDiscarded ==
    Blocking =>
        LET failed == FailedChecks IN
        \A i \in FailedWaits :
            /\ IF i = Len(trace) THEN pc = "check" /\ result = NoResult
               ELSE trace[i + 1].call = CheckOf(op)
            /\ ~(result.kind = "Inner" /\ result.err = WaitError)
            /\ c >= Cardinality({k \in failed : k < i}) * PollUs
            /\ c = Cardinality(failed) * PollUs

\* a receive that was handed a packet at the check after a wait that failed
C37_Witness ==
    /\ op = "do_receive" /\ pc = "done" /\ result.kind = "Ok"
    /\ FailedWaits # {}
    /\ PollUs > 0

-----------------------------------------------------------------------------
\* C34: with a poll interval of zero whole microseconds (zero, or below one
\* microsecond) and a check that never comes true and never fails, a
\* blocking operation never returns, whatever the timeout: the elapsed
\* counter stays 0, no outcome (Timeout or other) is ever produced, and from
\* the start call on the history is a check, a wait for 0 us, a check, ...
C34_ZeroIntervalNeverReturns ==
    (Blocking /\ opts.poll_interval < 1000 /\ NeverTrue) =>
        /\ c = 0
        /\ pc # "done" /\ result = NoResult
        /\ \A i \in DOMAIN trace :
            /\ i > 1 /\ i % 2 = 0 => trace[i].call = CheckOf(op) /\ CheckFalse(trace[i])
            /\ i > 1 /\ i % 2 = 1 => trace[i].call = "delay_us" /\ trace[i].arg = <<0>>

\* a set_state_checked with a poll interval of half a microsecond and a
\* timeout of zero that is still polling after more checks than any timeout
\* drawn would allow a positive interval
C34_Witness ==
    /\ op = "set_state_checked" /\ opts.poll_interval = 500 /\ opts.timeout = 0
    /\ NeverTrue
    /\ Len(trace) = MaxCalls
    /\ Count(trace, "get_state") > MaxTimeout + 1

-----------------------------------------------------------------------------
\* the deadline of a cooperative operation is set and the clock is past it
PastDeadline == expiry # None /\ now > expiry[1]

\* the operation ended with Timeout in a poll whose own check returned false
TimeoutAfterOwnCheck ==
    result = EngineTimeout =>
        /\ pc = "done" /\ PastDeadline
        /\ Len(trace) >= 1
        /\ Last(trace).call = CheckOf(op) /\ CheckFalse(Last(trace))
        /\ Last(trace).poll = polls

\* C35 as stated: in the cooperative engine the check comes before the
\* deadline test in every poll: a check that returns true completes the
\* operation with success, also when the clock is past the deadline, and
\* Timeout is reported only in a poll whose own check returned false (so
\* after at least one check, also with a timeout of 0).
C35_CheckBeforeDeadline ==
    Cooperative =>
        /\ \A i \in DOMAIN trace :
            (trace[i].call = CheckOf(op) /\ CheckTrue(trace[i])) =>
                pc = "done" /\ result.kind = "Ok"
        /\ TimeoutAfterOwnCheck

\* C35, amended: a check that returns true completes the operation without
\* Timeout, also when the clock is past the deadline: with success, or, in
\* a receive whose fetch fails, with the fetch's error; Timeout is reported
\* only in a poll whose own check returned false.
C35_TrueCheckBeatsDeadline ==
    Cooperative =>
        /\ \A i \in DOMAIN trace :
            (trace[i].call = CheckOf(op) /\ CheckTrue(trace[i])) =>
                /\ pc = "done"
                /\ IF Last(trace).call = "get_received" /\ ~Last(trace).ret.ok
                   THEN result = AsyncInner(Last(trace).ret.val[1])
                   ELSE result.kind = "Ok"
        /\ TimeoutAfterOwnCheck

\* a cooperative transmit with a timeout of 0 whose second poll, made with
\* the clock past the deadline, saw the check come true and succeeded
C35_Witness ==
    /\ op = "async_transmit" /\ pc = "done" /\ result = OkUnit
    /\ opts.timeout = Some(0) /\ PastDeadline
    /\ polls = 2

-----------------------------------------------------------------------------
\* C36: a cooperative operation created with timeout = None has no expiry
\* and never ends with Timeout: each of its false checks is followed by a
\* wake request of the same poll, after which it is suspended or polled
\* again, and it ends only with success after a true check or with the
\* error of the device call it made last.
C36_NoTimeoutWithoutDeadline ==
    (Cooperative /\ opts.timeout = None) =>
        /\ expiry = None
        /\ result # EngineTimeout
        /\ \A i \in DOMAIN trace :
            (trace[i].call = CheckOf(op) /\ CheckFalse(trace[i])) =>
                /\ \E k \in DOMAIN wakes : wakes[k][1] = trace[i].poll
                /\ i = Len(trace) => pc \in {"pending", "dropped"}
        /\ pc = "done" =>
            \/ /\ result.kind = "Ok"
               /\ \E i \in DOMAIN trace : trace[i].call = CheckOf(op) /\ CheckTrue(trace[i])
            \/ /\ ~Last(trace).ret.ok
               /\ result = AsyncInner(Last(trace).ret.val[1])

\* a cooperative receive without a deadline, suspended after its third
\* false check with the clock as late as the model follows it
C36_Witness ==
    /\ op = "async_receive" /\ opts.timeout = None
    /\ pc = "pending" /\ polls = 3
    /\ now = 1000 * MaxNow
    /\ Cardinality(FailedChecks) = 3

-----------------------------------------------------------------------------
\* C33: a cooperative operation with a deadline, polled by its scheduler
\* after every wake it requested while the wall clock keeps advancing,
\* eventually completes (with success, Inner(e) or Timeout) whatever the
\* device answers; and it advances only in a poll made when it was created
\* or woken: no device call is issued and no outcome produced in any other
\* step.
C33_DrivenCompletes ==
    /\ (Cooperative /\ opts.timeout # None) ~>
            (pc = "done" /\ result.kind \in {"Ok", "Inner", "Timeout"})
    /\ [][(Cooperative /\ (trace' # trace \/ result' # result \/ pc' = "done")) =>
              (Polled /\ polls' = polls + 1)]_vars

\* a cooperative receive with a deadline whose check never came true and
\* that ended with Timeout in its third poll
C33_Witness ==
    /\ op = "async_receive" /\ opts.timeout # None /\ script.never /\ script.errAt = 0
    /\ pc = "done" /\ result = EngineTimeout
    /\ polls = 3

-----------------------------------------------------------------------------
\* the response variants the handler of an operation accepts
AcceptedBy(kind) ==
    IF kind \in {"SetState", "SetChannel", "SetPower", "StartTransmit", "StartReceive"}
    THEN {"Ok", "Err"}
    ELSE IF kind \in {"IsBusy", "CheckTransmit", "CheckReceive"} THEN {"Bool", "Err"}
    ELSE IF kind = "GetState" THEN {"State", "Err"}
    ELSE IF kind = "PollRssi" THEN {"Rssi", "Err"}
    ELSE IF kind = "GetIrq" THEN {"Irq", "Err"}
    ELSE IF kind = "GetReceived" THEN {"Received", "Err"}
    ELSE {"Ok", "State", "Register", "Irq", "Rssi", "Received", "Bool", "Err"}

\* C38: every transaction a factory function builds carries a response
\* variant that the handler of the same operation accepts; so no call ever
\* takes a handler's unreachable branch, and a call whose request matches
\* the head transaction returns: the transaction's value when the response
\* is not Err, its error otherwise (a get_received handed a buffer shorter
\* than the packet aside).
C38_FactoryResponsesAccepted ==
    /\ \A i \in DOMAIN expected :
        expected[i].response[1] \in AcceptedBy(expected[i].request[1])
    /\ panic # Some("unreachable")
    /\ \A i \in DOMAIN calls :
        (Queued(i) /\ request_eq(expected[i].request, calls[i].request)) =>
            \/ /\ HasReturned(calls[i])
               /\ Returns(calls[i]).ok = (expected[i].response[1] # "Err")
            \/ /\ KindOf(calls[i]) = "GetReceived" /\ panic = Some("slice index")

\* a get_state call answered from a transaction built with an error
C38_Witness ==
    /\ Len(calls) = 1 /\ HasReturned(calls[1])
    /\ expected[1] = Transaction_get_state(Err("Timeout"))
    /\ Returns(calls[1]) = Err("Timeout")

-----------------------------------------------------------------------------
\* C32: every wait the blocking engine issues is for exactly poll_interval:
\* the microsecond value handed to the wait primitive is the microsecond
\* value the same pass of the loop added to the elapsed counter, for every
\* poll interval, those of 2^32 us and more included.
C32_WaitIsPollInterval ==
    (op \in {"do_transmit", "do_receive"} /\ pc # "idle") =>
        /\ c = Wide_times(Cardinality(FailedChecks), Duration_as_micros(opts.poll_interval))
        /\ \A i \in DOMAIN trace :
            trace[i].call = "delay_us" =>
                trace[i].arg = <<Duration_as_micros(opts.poll_interval)>>

-----------------------------------------------------------------------------
\* helpers.rs: helpers::do_receive

HelperReceive == op = "helpers::do_receive"
HelperPollUs == opts.blocking_options.poll_interval \div 1000
PacketAt(k) == trace[k].call = "get_received" /\ trace[k].ret.ok
FailedAt(k) == ~trace[k].ret.ok
FalseCheckAt(k) ==
    trace[k].call = "check_receive" /\ trace[k].ret.ok /\ ~trace[k].ret.val[1]
WaitAt(k) == trace[k].call = "delay_us" /\ trace[k].arg = <<HelperPollUs>>

-----------------------------------------------------------------------------
\* helpers.rs: do_ping_pong

PingPong == op = "do_ping_pong"
RoundsStarted == Count(trace, "do_transmit")
ReceiveTimeoutAt(k) == trace[k].call = "do_receive" /\ trace[k].ret = EngineTimeout
\* the step is the engine operation `name`, which ended with r
Ended(name, r) ==
    /\ Len(trace') = Len(trace) + 1
    /\ trace'[Len(trace')].call = name
    /\ trace'[Len(trace')].ret = r
BigEndian(b) == b[1] * 16777216 + b[2] * 65536 + b[3] * 256 + b[4]

PingPongCounts ==
    PingPong =>
        /\ link.received <= RoundsStarted
        /\ RoundsStarted <= link.sent
        /\ link.sent = opts.rounds
        /\ \A k \in 1..(Len(trace) - 1) :
              ReceiveTimeoutAt(k) =>
                  /\ trace[k + 1].call = "do_transmit"
                  /\ trace[k + 1].poll = trace[k].poll + 1
        /\ (pc = "done" /\ result.kind = "Ok") =>
              /\ result.sent = opts.rounds
              /\ result.received = link.received
              /\ RoundsStarted = opts.rounds
        /\ (pc = "done" /\ result.kind = "Timeout") =>
              /\ trace[Len(trace)].call = "do_transmit"
              /\ trace[Len(trace)].ret = EngineTimeout

PingPongStep ==
    PingPong =>
        /\ Ended("do_receive", EngineTimeout) =>
              /\ link'.received = link.received
              /\ link'.i = link.i + 1
              /\ pc' = "transmit"
              /\ result' = NoResult
        /\ \A r \in TransmitOutcomes \ {OkUnit} :
              Ended("do_transmit", r) => pc' = "done" /\ result' = r
        /\ \A e \in Errors :
              Ended("do_receive", Inner(e)) => pc' = "done" /\ result' = Inner(e)
        /\ link'.received # link.received =>
              /\ link'.received = link.received + 1
              /\ Len(trace') = Len(trace) + 1
              /\ LET r == trace'[Len(trace')] IN
                    /\ r.call = "do_receive"
                    /\ r.poll = link.i
                    /\ r.ret.kind = "Ok"
                    /\ r.ret.n >= 4
                    /\ BigEndian(r.arg[1]) = link.i

\* C39: in do_ping_pong a Timeout of a round's receive is swallowed: received
\* stays, no inter-round delay is made and the next round (if any) begins
\* with its transmit; the run never ends with that Timeout.  A Timeout or
\* device error of the transmit, or a device error of the receive, ends the
\* run with that error.  Always received <= rounds started <= sent = rounds,
\* and received grows, by one, only in a round whose response holds four
\* bytes at least, the first four decoding big-endian to the round's index.
C39_PingPongRounds == [][PingPongStep]_vars /\ []PingPongCounts

\* a link test of two rounds that has returned its counts: one round's
\* receive timed out, the other round's response was counted
C39_Witness ==
    /\ PingPong /\ pc = "done" /\ result.kind = "Ok"
    /\ opts.rounds = 2
    /\ \E k \in DOMAIN trace : ReceiveTimeoutAt(k)
    /\ result.received = 1
    /\ Count(trace, "delay_us") = 1

====
